---- MODULE Spec2Model ----
(***************************************************************************)
(* Model of the celbridge_host RPC transport:                              *)
(*   named_pipe.py   NamedPipeHandler (framing), NamedPipeServer (accept)  *)
(*   rpc_service.py  CelbridgeRpcService (accept/dispatch loop), the       *)
(*                   module-level service and connection slot,             *)
(*                   call_csharp_method (outbound calls)                    *)
(* The specifications share the variables:                                 *)
(*   SpecFrame      the byte-level framing of one message over one pipe    *)
(*   Spec           the service: lifecycle, loop threads, peer, outbound   *)
(*                  calls, all together                                    *)
(*   SpecLoop       one service serving every kind of request              *)
(*   SpecCall       one service and an outbound caller                     *)
(*   SpecLifecycle  services started, stopped and replaced: several loop   *)
(*                  threads                                                *)
(***************************************************************************)
EXTENDS Integers, Sequences, FiniteSets, TLC

(***************************************************************************)
(* Bounds of the model                                                     *)
(***************************************************************************)
\* longest body, in characters, written in SpecFrame
MaxLen == 4
\* loop threads created over a run (calls of start() that spawn a thread)
MaxThreads == 2
\* pipe instances created over a run (successful CreateNamedPipe calls)
MaxConns == 2
\* frames the peer sends over a run
MaxFrames == 2
\* outbound calls (call_csharp_method) made over a run
MaxCalls == 1
\* frames the peer sends over a run of SpecLifecycle
MaxLifecycleFrames == 1
\* threads that call initialize_rpc_service, once each, in SpecInit
MaxInitCallers == 2
\* the longest body two threads write at the same time
MaxBody == 2
\* the threads that make outbound calls at the same time, and the requests
\* they build in all
MaxCallers == 2
MaxIds == 4
\* the arguments of one invocation of the command line application
MaxArgs == 3
\* the calls made on a CelbridgeHost object, and the lines of a stderr
MaxHostCalls == 2
MaxLines == 2
\* the seconds the clock shows, and the largest max_log_files
MaxStamp == 3
MaxKeep == 2

(***************************************************************************)
(* Text and bytes.  A body is a sequence of characters; the wire carries   *)
(* bytes (numbers 0..255).  The alphabet has one-, two- and three-byte     *)
(* characters and the two characters of the header terminator.             *)
(***************************************************************************)
Chars == {"a", "e_acute", "euro", "CR", "LF"}

\* str.encode('utf-8') of one character
Utf8Char(c) ==
    CASE c = "a"       -> <<97>>
      [] c = "e_acute" -> <<195, 169>>
      [] c = "euro"    -> <<226, 130, 172>>
      [] c = "CR"      -> <<13>>
      [] c = "LF"      -> <<10>>

\* message.encode('utf-8')
RECURSIVE Utf8Encode(_)
Utf8Encode(s) ==
    IF s = <<>> THEN <<>> ELSE Utf8Char(Head(s)) \o Utf8Encode(Tail(s))

IsPrefix(p, b) == Len(p) <= Len(b) /\ SubSeq(b, 1, Len(p)) = p

Drop(b, n) == SubSeq(b, n + 1, Len(b))

\* bytes.decode('utf-8'): [ok |-> TRUE, str |-> the characters], or
\* [ok |-> FALSE] (UnicodeDecodeError) when the bytes encode no text
RECURSIVE Utf8Decode(_)
Utf8Decode(b) ==
    IF b = <<>> THEN [ok |-> TRUE, str |-> <<>>]
    ELSE LET m == {c \in Chars : IsPrefix(Utf8Char(c), b)}
         IN  IF m = {} THEN [ok |-> FALSE, str |-> <<>>]
             ELSE LET c == CHOOSE x \in m : TRUE
                      rest == Utf8Decode(Drop(b, Len(Utf8Char(c))))
                  IN  [ok |-> rest.ok, str |-> <<c>> \o rest.str]

\* f"{content_length}" : the decimal digits of a natural number, as bytes
RECURSIVE Decimal(_)
Decimal(n) ==
    IF n < 10 THEN <<48 + n>> ELSE Decimal(n \div 10) \o <<48 + (n % 10)>>

\* b"\r\n\r\n"
HeaderEnd == <<13, 10, 13, 10>>

\* b"Content-Length:"
ContentLengthKey ==
    <<67, 111, 110, 116, 101, 110, 116, 45, 76, 101, 110, 103, 116, 104, 58>>

\* f"Content-Length: {content_length}\r\n\r\n".encode('utf-8')
FrameHeaders(content_length) ==
    ContentLengthKey \o <<32>> \o Decimal(content_length) \o HeaderEnd

\* full_message = headers + message_bytes  (write_message, one WriteFile)
FullMessage(message) ==
    LET message_bytes == Utf8Encode(message)
    IN  FrameHeaders(Len(message_bytes)) \o message_bytes

\* b"\r\n\r\n" in headers
RECURSIVE Contains(_, _)
Contains(b, p) ==
    IF Len(b) < Len(p) THEN FALSE
    ELSE IsPrefix(p, b) \/ Contains(Tail(b), p)

\* headers_str.split('\r\n')
RECURSIVE SplitLines(_, _)
SplitLines(b, cur) ==
    IF b = <<>> THEN <<cur>>
    ELSE IF IsPrefix(<<13, 10>>, b) THEN <<cur>> \o SplitLines(Drop(b, 2), <<>>)
    ELSE SplitLines(Tail(b), Append(cur, Head(b)))

\* str.strip() of ASCII blanks
RECURSIVE Strip(_)
Strip(b) ==
    IF b = <<>> THEN b
    ELSE IF Head(b) \in {32, 9} THEN Strip(Tail(b))
    ELSE IF b[Len(b)] \in {32, 9} THEN Strip(SubSeq(b, 1, Len(b) - 1))
    ELSE b

\* int(text) for a run of decimal digits; "ValueError" otherwise
RECURSIVE DigitsValue(_, _)
DigitsValue(b, acc) ==
    IF b = <<>> THEN acc ELSE DigitsValue(Tail(b), 10 * acc + (Head(b) - 48))

\* int(text): [kind |-> "int", val |-> n], or [kind |-> "ValueError"]
ParseInt(b) ==
    LET t == Strip(b)
    IN  IF t # <<>> /\ \A i \in 1..Len(t) : t[i] \in 48..57
        THEN [kind |-> "int", val |-> DigitsValue(t, 0)]
        ELSE [kind |-> "ValueError", val |-> 0]

\* the loop over headers_str.split('\r\n') of read_message: the value of the
\* first line that starts with 'Content-Length:'; kind "None" when there is
\* no such line, "ValueError" when int() rejects the value
RECURSIVE FirstContentLength(_)
FirstContentLength(lines) ==
    IF lines = <<>> THEN [kind |-> "None", val |-> 0]
    ELSE IF IsPrefix(ContentLengthKey, Head(lines))
         THEN ParseInt(Drop(Head(lines), Len(ContentLengthKey)))
         ELSE FirstContentLength(Tail(lines))

ParseContentLength(headers_bytes) ==
    FirstContentLength(SplitLines(headers_bytes, <<>>))

\* win32file.ReadFile(pipe_handle, count) on a byte-mode pipe holding the
\* bytes avail: at most count bytes, from the front
ReadFileData(avail, count) ==
    SubSeq(avail, 1, IF count < Len(avail) THEN count ELSE Len(avail))

\* Optional[str] results of read_message
NoMessage == [kind |-> "None", str |-> <<>>]
Message(s) == [kind |-> "str", str |-> s]

\* a plausible slip: a short body is returned as if it were complete
BodyResultShortAccepted(message_bytes, count) ==
    IF message_bytes = <<>>
    THEN NoMessage
    ELSE LET d == Utf8Decode(message_bytes)
         IN  IF d.ok THEN Message(d.str) ELSE NoMessage

\* the tail of read_message once message_bytes has been read (lines 54-58):
\* an empty or short read is a failure, a full read is decoded
BodyResult(message_bytes, count) ==
    IF message_bytes = <<>> \/ Len(message_bytes) # count
    THEN NoMessage
    ELSE LET d == Utf8Decode(message_bytes)
         IN  IF d.ok THEN Message(d.str) ELSE NoMessage

(***************************************************************************)
(* State                                                                   *)
(***************************************************************************)
VARIABLES
    \* SpecFrame: one pipe, one writer, one reader
    message,         \* the body handed to write_message
    written,         \* write_message has returned True
    pipe_bytes,      \* bytes written to the pipe and not yet read
    writer_closed,   \* the writing end has closed the pipe
    read_pc,         \* position of the reader inside read_message
    headers,         \* read_message's headers buffer
    content_length,  \* read_message's parsed Content-Length
    read_result      \* what read_message returned

frame_vars == <<message, written, pipe_bytes, writer_closed, read_pc, headers,
                content_length, read_result>>

VARIABLES
    \* Spec: the module state of rpc_service.py
    env_pipe,          \* os.environ.get('CELBRIDGE_RPC_PIPE')
    rpc_service,       \* _rpc_service: NoService or a service
    pipe_handler,      \* _pipe_handler, the connection slot: NoHandle or a pipe
    pipe_handler_lock, \* _pipe_handler_lock: Unlocked or the thread holding it
    \* the CelbridgeRpcService instances created so far
    n_services,        \* how many were constructed
    running,           \* running[s]: self.running
    thread,            \* thread[s]: self.thread (0: None)
    \* the threads executing CelbridgeRpcService._run
    thread_svc,        \* thread_svc[t]: the service (self) of thread t, 0: not created
    pc,                \* pc[t]: position of thread t
    handler,           \* handler[t]: the local pipe_handle / handler of thread t
    request_str,       \* request_str[t]
    response_str,      \* response_str[t]
    \* the operating system's instances of the named pipe
    pipes,
    \* the thread executing call_csharp_method
    call_pc, call_handler, call_result, n_calls,
    call_value,        \* what the call returned, or the remote code its RpcError names
    call_sent,         \* history: frames the peer had sent when the call wrote its request
    \* the threads calling initialize_rpc_service
    service_lock,      \* _service_lock: its holder
    init_pc,           \* init_pc[c]: position of caller c
    init_result        \* init_result[c]: what the call of c returned

lifecycle_vars == <<env_pipe, rpc_service, n_services, running, thread>>
thread_vars == <<thread_svc, pc, handler, request_str, response_str>>
slot_vars == <<pipe_handler, pipe_handler_lock>>
call_vars == <<call_pc, call_handler, call_result, n_calls, call_value, call_sent>>

VARIABLES
    \* SpecWrite: the threads that write on one connection
    wire_out,          \* the bytes WriteFile has put on the pipe, in order
    write_msg,         \* per writer: the argument of its write_message
    write_calls        \* per writer: the WriteFile calls still to be made

VARIABLES
    \* SpecIds: the threads inside call_csharp_method and the ids of their
    \* requests
    next_id,           \* the next value of jsonrpcclient's id generator
    request_id,        \* per caller: NoId, or the id of the request it built
    sent_ids           \* the ids of the requests written on the connection

VARIABLES
    \* SpecHost: calls on a CelbridgeHost object
    host_pc,           \* where the call is: idle, cli, help, help_all, done
    host_call,         \* the call: method, command name, arguments acceptable
    cli_exit,          \* how the CLI subprocess of the call ended
    cmd_help,          \* what _get_command_help returned to the call
    printed,           \* what the call has printed, in order
    host_return,       \* what the call returned or raised
    n_host_calls       \* calls begun so far

VARIABLES
    \* SpecCli: the Typer application invoked with a list of arguments
    runner_pc,         \* idle, invoked, done
    runner_app,        \* which construction of the application is invoked
    runner_args,       \* the arguments of the invocation
    runner_result      \* exit_code, stdout and stderr of the invocation

VARIABLES
    \* SpecAccept: accept_client, per thread executing _run
    accept_logged,     \* what its last call logged on failing: none, error, nothing
    accept_stopped     \* history: stop() had run when it returned the connection

VARIABLES
    \* SpecVersion: the get_version RPC method
    version_pc,        \* idle, calling (inside cel.version()), done
    version_result     \* the Result get_version returned

VARIABLES
    \* SpecLog: configure_logging and the log directory
    log_files,         \* the celbridge_host_*.log files of the directory, by stamp
    now,               \* the clock, in seconds
    log_pc,            \* idle, done (configure_logging has run)
    log_max,           \* history: max_log_files of the last run
    log_before,        \* history: the files it found
    log_chosen,        \* history: files_to_delete
    log_failed,        \* history: the files os.remove could not remove
    log_after          \* history: the files of the directory when it returned

init_vars == <<service_lock, init_pc, init_result>>

write_vars == <<wire_out, write_msg, write_calls>>

id_vars == <<next_id, request_id, sent_ids>>

host_vars ==
    <<host_pc, host_call, cli_exit, cmd_help, printed, host_return, n_host_calls>>

\* what accept_client logged, and when it returned
accept_vars == <<accept_logged, accept_stopped>>

\* the command line application, run by itself
cli_vars == <<runner_pc, runner_app, runner_args, runner_result>>

\* what stands beside the transport and the host object
\* the get_version handler
version_vars == <<version_pc, version_result>>

\* configure_logging
log_vars ==
    <<log_files, now, log_pc, log_max, log_before, log_chosen, log_failed, log_after>>

tool_vars == <<cli_vars, accept_vars, version_vars, log_vars>>

\* what an invocation of the application and a call of accept_client leave
\* alone beside the transport
beside_cli == <<accept_vars, version_vars, log_vars>>
beside_accept == <<cli_vars, version_vars, log_vars>>
beside_version == <<cli_vars, accept_vars, log_vars>>

\* the transport and the host object
transport_vars ==
    <<frame_vars, lifecycle_vars, thread_vars, slot_vars, pipes, call_vars, init_vars,
      write_vars, id_vars, host_vars>>

service_vars ==
    <<lifecycle_vars, thread_vars, slot_vars, pipes, call_vars, init_vars, write_vars,
      id_vars, host_vars, tool_vars>>

vars == <<frame_vars, service_vars>>

(***************************************************************************)
(* The service: values                                                     *)
(***************************************************************************)
Threads == 1..MaxThreads
Services == 1..MaxThreads
Handles == 1..MaxConns
\* the ids the peer gives its seq-th request of a connection: one it used
\* before or the next fresh one
Ids(seq) == 1..seq

\* the threads that call initialize_rpc_service in SpecInit
InitCallers == 1..MaxInitCallers

\* the threads that write on the connection: the loop thread, its responses
\* (rpc_service.py:102, 117), and the thread inside call_csharp_method, its
\* request (rpc_service.py:211)
Writers == {"loop", "call"}

IdCallers == 1..MaxCallers

\* what an RPC method returns: jsonrpcserver's Success(result) or
\* Error(code, message)
NotReturned == [kind |-> "none", value |-> "none", code |-> 0]
Success(value) == [kind |-> "Success", value |-> value, code |-> 0]
Error(code) == [kind |-> "Error", value |-> "none", code |-> code]

\* what CliRunner.invoke returns: exit_code, stdout, stderr
NoRunnerResult == [exit_code |-> -1, stdout |-> "", stderr |-> ""]
RunnerResult(code, out, err) == [exit_code |-> code, stdout |-> out, stderr |-> err]

\* the commands the celbridge CLI registers (__main__.py:11-19; cli.py:23-43
\* with commands/__init__.py:9-10, which does not export greet_command), and
\* names it does not know
Registered == {"version", "help"}
CommandNames == Registered \cup {"greet", "nonexistent-command"}
NoName == "none"

\* a call on a CelbridgeHost object: cel.<command>(...) with arguments the
\* CLI accepts or not, or cel.help(...) with or without a command name
NoCall == [method |-> "none", command |-> NoName, args_ok |-> TRUE]
CommandCall(name, ok) == [method |-> "command", command |-> name, args_ok |-> ok]
HelpCall(name) == [method |-> "help", command |-> name, args_ok |-> TRUE]

\* the lines a failing subprocess writes to stderr, by how they begin; "" is
\* a blank line, "Error" any line none of the tests of lines 45-51 match
LineKinds == {"Usage:", "Try ", "Resolved ", "Error", ""}
Stderrs == UNION {[1..n -> LineKinds] : n \in 1..MaxLines}

\* how a subprocess ended
NoExit == [code |-> "none", stderr |-> <<>>]
ExitOk == [code |-> "ok", stderr |-> <<>>]
NotStarted == [code |-> "not started", stderr |-> <<>>]
ExitNonZero(stderr) == [code |-> "nonzero", stderr |-> stderr]

\* str.strip() on lines joined by newlines: blank lines at either end go
RECURSIVE StripLeft(_)
StripLeft(lines) ==
    IF lines # <<>> /\ Head(lines) = "" THEN StripLeft(Tail(lines)) ELSE lines

RECURSIVE StripRight(_)
StripRight(lines) ==
    IF lines # <<>> /\ lines[Len(lines)] = ""
    THEN StripRight(SubSeq(lines, 1, Len(lines) - 1))
    ELSE lines

StripLines(lines) == StripRight(StripLeft(lines))

\* the tests of lines 45-51: usage, help suggestion and uv progress lines
Skipped(line) == line \in {"Usage:", "Try ", "Resolved "}

KeptLine(line) == ~Skipped(line)

\* _clean_error_message(stderr) (lines 30-54)
CleanErrorMessage(stderr) == StripLines(SelectSeq(StripLines(stderr), KeptLine))

\* what a call prints
ErrorMessage(text) == [what |-> "error", text |-> text]
UsageAndDescription(name) == [what |-> "usage", command |-> name]
AvailableCommands == [what |-> "commands", command |-> NoName]
NotFound(name) == [what |-> "not found", command |-> name]

\* a writer's write_message: not called, inside the call, or returned True
NotWriting == [state |-> "idle", message |-> <<>>]
Writing(body) == [state |-> "writing", message |-> body]
Written(body) == [state |-> "done", message |-> body]
\* what os.environ.get('CELBRIDGE_RPC_PIPE') gives: None, "", a pipe name
EnvValues == {"absent", "empty", "name"}

\* _rpc_service = None (rpc_service.py:20)
NoService == 0
\* _pipe_handler = None (rpc_service.py:24)
NoHandle == 0
\* a request without an "id" member (a notification)
NoId == 0
\* _pipe_handler_lock is free
Unlocked == <<>>
LoopThread(t) == <<"loop", t>>
Caller == <<"call">>

\* a plausible slip: PIPE_UNLIMITED_INSTANCES
UnlimitedInstances == MaxConns

\* nMaxInstances of CreateNamedPipe (named_pipe.py:141)
MaxInstances == 1

\* what dispatch makes of a request body:
\*   ok               get_version, whose handler returns Success
\*   ok_info          get_system_info, whose handler returns Success
\*   handler_error    a registered method whose handler raises or returns
\*                    Error(code=-32603, ...)
\*   no_method        a method that is not registered
\*   dispatch_raises  dispatch itself raises
RequestKinds == {"ok", "ok_info", "handler_error", "no_method", "dispatch_raises"}

\* the payload of the Success a handler returns (rpc_handler.py:22, 37)
NoResult == "none"
HandlerResult(req) == IF req.kind = "ok" THEN "version_str" ELSE "info"
Succeeds(req) == req.kind \in {"ok", "ok_info"}

\* the requests of SpecLoop: one registered method, get_version
LoopKinds == RequestKinds \ {"ok_info"}

\* the requests of SpecDispatch: the ones dispatch() answers itself
DispatchKinds == RequestKinds \ {"dispatch_raises"}

\* the frames the peer sends: requests, and a frame with an empty body
Request(seq, kind, id) == [seq |-> seq, kind |-> kind, id |-> id]
EmptyFrame(seq) == [seq |-> seq, kind |-> "empty", id |-> NoId]

\* the frames the peer sends in answer to an outbound call:
\*   response_ok     {"jsonrpc": "2.0", "result": ..., "id": ...}
\*   response_error  {"jsonrpc": "2.0", "error": {"code": ..., "message": ...}, "id": ...}
\*   not_json        a body that is not JSON
\*   not_response    a JSON object with neither "result" nor "error"
\*   batch           a JSON array
ResponseKinds == {"response_ok", "response_error", "not_json", "not_response", "batch"}
Response(seq, kind) == [seq |-> seq, kind |-> kind, id |-> NoId]

\* nothing returned, the payload of the peer's success response, the code
\* of the peer's error response
NoValue == "none"
PeerResult == "peer_result"
PeerErrorCode == "peer_error_code"

\* the bodies the service writes
\* a plausible slip: the response of a served request leaves the payload out
ResultResponseWithoutPayload(result, id) ==
    [type |-> "result", code |-> 0, id |-> id, result |-> NoResult]

ResultResponse(result, id) ==
    [type |-> "result", code |-> 0, id |-> id, result |-> result]
ErrorResponse(code, id) ==
    [type |-> "error", code |-> code, id |-> id, result |-> NoResult]
EmptyString == [type |-> "empty", code |-> 0, id |-> NoId, result |-> NoResult]
OutboundRequest(n) ==
    [type |-> "request", code |-> 0, id |-> n, result |-> NoResult]

\* JSON-RPC error codes
InternalError == -32603
MethodNotFound == -32601
InvalidRequest == -32600
ParseError == -32700

\* jsonrpcserver.dispatch on a body that is not a request: the parse error
\* or invalid request response, with id null
dispatchNoRequest(req) ==
    ErrorResponse(IF req.kind = "not_json" THEN ParseError ELSE InvalidRequest, NoId)

\* a plausible slip: a method that is not registered is answered as if a
\* handler had served it
dispatchUnknownServed(req) ==
    IF req.kind \in ResponseKinds THEN dispatchNoRequest(req)
    ELSE IF req.id = NoId THEN EmptyString
    ELSE IF Succeeds(req) \/ req.kind = "no_method"
         THEN ResultResponse(HandlerResult(req), req.id)
    ELSE ErrorResponse(InternalError, req.id)

\* jsonrpcserver.dispatch(request_str) when it returns: "" for a request
\* without an id, else the response the method yields
dispatch(req) ==
    IF req.kind \in ResponseKinds THEN dispatchNoRequest(req)
    ELSE IF req.id = NoId THEN EmptyString
    ELSE IF Succeeds(req) THEN ResultResponse(HandlerResult(req), req.id)
    ELSE IF req.kind = "no_method" THEN ErrorResponse(MethodNotFound, req.id)
    ELSE ErrorResponse(InternalError, req.id)

DispatchRaises(req) == req.kind = "dispatch_raises"

\* error_response of _handle_client's except branch (lines 109-116)
error_response == ErrorResponse(InternalError, NoId)

\* NamedPipeHandler.read_message on a whole frame at the front of the pipe:
\* the body, or None for an empty body (named_pipe.py:54, see SpecFrame)
ReadWholeFrame(frame) ==
    IF frame.kind = "empty" THEN [kind |-> "None", frame |-> frame]
    ELSE [kind |-> "str", frame |-> frame]

\* a pipe instance: its state, whether the peer holds its end, the frames
\* the peer sent (count), those not yet read (inq), the bodies the service
\* wrote (out, with the writer) and the requests the loop read (reads)
NewPipe ==
    [state |-> "unused", peer_open |-> FALSE, sent |-> 0,
     inq |-> <<>>, out |-> <<>>, reads |-> <<>>]

\* win32file.CloseHandle(pipe_handle): the instance and what it buffered
\* are gone
ClosedPipe(p) == [NewPipe EXCEPT !.state = "closed", !.sent = p.sent]

n_threads == Cardinality({t \in Threads : thread_svc[t] # 0})
n_conns == Cardinality({h \in Handles : pipes[h].state # "unused"})
\* instances of the pipe that exist: created and not yet closed
OpenInstances == {h \in Handles : pipes[h].state \in {"listening", "connected"}}

RECURSIVE SumSent(_)
SumSent(h) == IF h = 0 THEN 0 ELSE pipes[h].sent + SumSent(h - 1)
n_frames == SumSent(MaxConns)

InitService ==
    /\ log_files = {}
    /\ now = 1
    /\ log_pc = "idle"
    /\ log_max = 0
    /\ log_before = {}
    /\ log_chosen = {}
    /\ log_failed = {}
    /\ log_after = {}
    /\ version_pc = "idle"
    /\ version_result = NotReturned
    /\ accept_logged = [t \in Threads |-> "none"]
    /\ accept_stopped = [t \in Threads |-> FALSE]
    /\ runner_pc = "idle"
    /\ runner_app = "main"
    /\ runner_args = <<>>
    /\ runner_result = NoRunnerResult
    /\ host_pc = "idle"
    /\ host_call = NoCall
    /\ cli_exit = NoExit
    /\ cmd_help = "unset"
    /\ printed = <<>>
    /\ host_return = "none"
    /\ n_host_calls = 0
    /\ next_id = 1
    /\ request_id = [c \in IdCallers |-> NoId]
    /\ sent_ids = <<>>
    /\ wire_out = <<>>
    /\ write_msg = [w \in Writers |-> NotWriting]
    /\ write_calls = [w \in Writers |-> <<>>]
    /\ env_pipe \in EnvValues
    /\ service_lock = Unlocked
    /\ init_pc = [c \in InitCallers |-> "idle"]
    /\ init_result = [c \in InitCallers |-> "none"]
    /\ rpc_service = NoService
    /\ pipe_handler = NoHandle
    /\ pipe_handler_lock = Unlocked
    /\ n_services = 0
    /\ running = [s \in Services |-> FALSE]
    /\ thread = [s \in Services |-> 0]
    /\ thread_svc = [t \in Threads |-> 0]
    /\ pc = [t \in Threads |-> "unborn"]
    /\ handler = [t \in Threads |-> NoHandle]
    /\ request_str = [t \in Threads |-> EmptyFrame(0)]
    /\ response_str = [t \in Threads |-> EmptyString]
    /\ pipes = [h \in Handles |-> NewPipe]
    /\ call_pc = "idle"
    /\ call_handler = NoHandle
    /\ call_result = "none"
    /\ call_value = NoValue
    /\ call_sent = 0
    /\ n_calls = 0

FrameAtRest ==
    /\ message = <<>>
    /\ written = FALSE
    /\ pipe_bytes = <<>>
    /\ writer_closed = FALSE
    /\ read_pc = "idle"
    /\ headers = <<>>
    /\ content_length = 0
    /\ read_result = NoMessage

(***************************************************************************)
(* SpecFrame: write_message on one end, read_message on the other          *)
(***************************************************************************)
RECURSIVE Strings(_)
Strings(n) ==
    IF n = 0 THEN {<<>>}
    ELSE LET shorter == Strings(n - 1)
         IN  shorter \cup {Append(s, c) : s \in {x \in shorter : Len(x) = n - 1},
                                          c \in Chars}

InitFrame ==
    /\ message \in Strings(MaxLen)
    /\ written = FALSE
    /\ pipe_bytes = <<>>
    /\ writer_closed = FALSE
    /\ read_pc = "idle"
    /\ headers = <<>>
    /\ content_length = 0
    /\ read_result = NoMessage
    /\ InitService
    /\ env_pipe = "absent"

\* NamedPipeHandler.write_message(message): one WriteFile of headers + body
WriteMessage ==
    /\ ~written /\ ~writer_closed
    /\ pipe_bytes' = pipe_bytes \o FullMessage(message)
    /\ written' = TRUE
    /\ UNCHANGED <<service_vars, message, writer_closed, read_pc, headers,
                   content_length, read_result>>

\* the writing end closes its handle
WriterClose ==
    /\ ~writer_closed
    /\ writer_closed' = TRUE
    /\ UNCHANGED <<service_vars, message, written, pipe_bytes, read_pc, headers,
                   content_length, read_result>>

\* read_message is called: headers = b""
ReadMessageCall ==
    /\ read_pc = "idle"
    /\ read_pc' = "headers"
    /\ headers' = <<>>
    /\ UNCHANGED <<service_vars, message, written, pipe_bytes, writer_closed,
                   content_length, read_result>>

\* what read_message returns when the pipe is closed with no byte left:
\* if not chunk: return None  (lines 36-37)
CleanCloseResult == NoMessage

\* one turn of the header loop: chunk = self._read_bytes(1).  ReadFile
\* blocks while the pipe is empty and open; on a broken pipe _read_bytes
\* returns None and read_message returns None.
ReadHeaderByte ==
    /\ read_pc = "headers"
    /\ ~Contains(headers, HeaderEnd)
    /\ \/ /\ pipe_bytes # <<>>
          /\ headers' = headers \o ReadFileData(pipe_bytes, 1)
          /\ pipe_bytes' = Tail(pipe_bytes)
          /\ UNCHANGED <<read_pc, read_result>>
       \/ /\ pipe_bytes = <<>> /\ writer_closed
          /\ read_pc' = "done"
          /\ read_result' = CleanCloseResult
          /\ UNCHANGED <<headers, pipe_bytes>>
    /\ UNCHANGED <<service_vars, message, written, writer_closed, content_length>>

\* a plausible slip: a header block without Content-Length is taken for
\* the header of an empty body
MissingLengthIsZero(cl) ==
    IF cl.kind = "None" THEN [kind |-> "int", val |-> 0] ELSE cl

\* content_length after the loop of lines 43-46, as line 48 sees it
ContentLengthFound(cl) == cl

\* the header block is complete: parse Content-Length (lines 41-50)
ParseHeaders ==
    /\ read_pc = "headers"
    /\ Contains(headers, HeaderEnd)
    /\ LET cl == ContentLengthFound(ParseContentLength(headers))
       IN  IF cl.kind = "int"
           THEN /\ content_length' = cl.val
                /\ read_pc' = "body"
                /\ UNCHANGED read_result
           ELSE /\ read_pc' = "done"
                /\ read_result' = NoMessage
                /\ UNCHANGED content_length
    /\ UNCHANGED <<service_vars, message, written, pipe_bytes, writer_closed,
                   headers>>

\* message_bytes = self._read_bytes(content_length), then lines 54-58.
\* A read of zero bytes yields b""; otherwise ReadFile blocks while the
\* pipe is empty and open and fails with a broken pipe once it is closed.
ReadBody ==
    /\ read_pc = "body"
    /\ \/ /\ content_length = 0 \/ pipe_bytes # <<>>
          /\ LET message_bytes == ReadFileData(pipe_bytes, content_length)
             IN  /\ pipe_bytes' = Drop(pipe_bytes, Len(message_bytes))
                 /\ read_result' = BodyResult(message_bytes, content_length)
       \/ /\ content_length > 0 /\ pipe_bytes = <<>> /\ writer_closed
          /\ read_result' = NoMessage
          /\ UNCHANGED pipe_bytes
    /\ read_pc' = "done"
    /\ UNCHANGED <<service_vars, message, written, writer_closed, headers,
                   content_length>>

NextFrame ==
    \/ WriteMessage
    \/ WriterClose
    \/ ReadMessageCall
    \/ ReadHeaderByte
    \/ ParseHeaders
    \/ ReadBody

SpecFrame == InitFrame /\ [][NextFrame]_vars

\* C1: framing round trip.  Whenever read_message returns after
\* write_message(message) put a whole frame on the pipe, it returns exactly
\* message, for every body including the empty one.
C1_RoundTrip ==
    (written /\ read_pc = "done") => read_result = Message(message)


(***************************************************************************)
(* Spec: lifecycle                                                         *)
(***************************************************************************)
\* CelbridgeRpcService.start(self), when not already running (lines 48-51):
\* self.running = True; self.thread = Thread(target=self._run); start it
SpawnThread(s) ==
    LET t == n_threads + 1
    IN  /\ n_threads < MaxThreads
        /\ running' = [running EXCEPT ![s] = TRUE]
        /\ thread' = [thread EXCEPT ![s] = t]
        /\ thread_svc' = [thread_svc EXCEPT ![t] = s]
        /\ pc' = [pc EXCEPT ![t] = "run"]

\* a plausible slip: start() does not look at the running flag
NeverAlreadyRunning(s) == FALSE

\* if self.running:  (line 44)
AlreadyRunning(s) == running[s]

\* CelbridgeRpcService.start(self)
Start(s) ==
    /\ s \in 1..n_services
    /\ IF AlreadyRunning(s)
       THEN UNCHANGED <<running, thread, thread_svc, pc>>
       ELSE SpawnThread(s)
    /\ UNCHANGED <<frame_vars, write_vars, id_vars, host_vars, tool_vars,
                   init_vars, env_pipe, rpc_service, n_services, handler,
                   request_str, response_str, slot_vars, pipes, call_vars>>

\* the threads that are alive: started, and not yet out of _run
Alive(t) == pc[t] \notin {"unborn", "exit"}

\* threading.Thread(target=self._run, daemon=True)  (line 49)
IsDaemon(t) == TRUE

\* a plausible slip: stop() joins the thread it asked to stop
StopAfterJoin(s) == thread[s] = 0 \/ ~Alive(thread[s])

\* stop() can return: it does not join the thread (lines 56-59)
StopReturns(s) == TRUE

\* CelbridgeRpcService.stop(self)
Stop(s) ==
    /\ s \in 1..n_services
    /\ StopReturns(s)
    /\ running' = [running EXCEPT ![s] = FALSE]
    /\ UNCHANGED <<frame_vars, write_vars, id_vars, host_vars, tool_vars,
                   init_vars, env_pipe, rpc_service, n_services, thread,
                   thread_vars, slot_vars, pipes, call_vars>>

\* a plausible slip: only an absent variable is looked for
NoPipeNameIfAbsent == env_pipe = "absent"

\* if not pipe_name:  (line 133)
NoPipeName == env_pipe \in {"absent", "empty"}

\* a plausible slip: a new service replaces the one that exists
NeverInitialized == FALSE

\* if _rpc_service is not None:  (line 138)
AlreadyInitialized == rpc_service # NoService

\* initialize_rpc_service(), when no other thread is inside it or inside
\* shutdown_rpc_service: the with block of lines 137-149 in one step
InitializeRpcService ==
    /\ service_lock = Unlocked
    /\ IF NoPipeName \/ AlreadyInitialized
       THEN UNCHANGED <<rpc_service, n_services, running, thread, thread_svc, pc>>
       ELSE /\ n_services' = n_services + 1
            /\ rpc_service' = n_services + 1
            /\ SpawnThread(n_services + 1)
    /\ UNCHANGED <<frame_vars, write_vars, id_vars, host_vars, tool_vars,
                   init_vars, env_pipe, handler, request_str, response_str,
                   slot_vars, pipes, call_vars>>

\* shutdown_rpc_service()
ShutdownRpcService ==
    /\ service_lock = Unlocked
    /\ IF rpc_service # NoService
       THEN /\ StopReturns(rpc_service)
            /\ running' = [running EXCEPT ![rpc_service] = FALSE]
            /\ rpc_service' = NoService
       ELSE UNCHANGED <<running, rpc_service>>
    /\ UNCHANGED <<frame_vars, write_vars, id_vars, host_vars, tool_vars,
                   init_vars, env_pipe, n_services, thread, thread_vars,
                   slot_vars, pipes, call_vars>>

(***************************************************************************)
(* SpecInit: initialize_rpc_service step by step, for threads that call it *)
(* at the same time                                                        *)
(***************************************************************************)
InitCaller(c) == <<"init", c>>

\* pipe_name = os.environ.get('CELBRIDGE_RPC_PIPE'); if not pipe_name:
\* return False  (lines 132-135)
InitEnv(c) ==
    /\ init_pc[c] = "idle"
    /\ IF NoPipeName
       THEN /\ init_pc' = [init_pc EXCEPT ![c] = "done"]
            /\ init_result' = [init_result EXCEPT ![c] = "False"]
       ELSE /\ init_pc' = [init_pc EXCEPT ![c] = "lock"]
            /\ UNCHANGED init_result
    /\ UNCHANGED <<frame_vars, write_vars, id_vars, host_vars, tool_vars,
                   lifecycle_vars, thread_vars, slot_vars, pipes, call_vars,
                   service_lock>>

\* with _service_lock:  (entering, line 137)
InitAcquire(c) ==
    /\ init_pc[c] = "lock"
    /\ service_lock = Unlocked
    /\ service_lock' = InitCaller(c)
    /\ init_pc' = [init_pc EXCEPT ![c] = "locked"]
    /\ UNCHANGED <<frame_vars, write_vars, id_vars, host_vars, tool_vars,
                   lifecycle_vars, thread_vars, slot_vars, pipes, call_vars,
                   init_result>>

\* the with block (lines 138-146): return False if a service exists, else
\* create it, start it and return True; the lock is released on the way out
InitLocked(c) ==
    /\ init_pc[c] = "locked"
    /\ IF AlreadyInitialized
       THEN /\ init_result' = [init_result EXCEPT ![c] = "False"]
            /\ UNCHANGED <<rpc_service, n_services, running, thread, thread_svc,
                           pc>>
       ELSE /\ n_services' = n_services + 1
            /\ rpc_service' = n_services + 1
            /\ SpawnThread(n_services + 1)
            /\ init_result' = [init_result EXCEPT ![c] = "True"]
    /\ service_lock' = Unlocked
    /\ init_pc' = [init_pc EXCEPT ![c] = "done"]
    /\ UNCHANGED <<frame_vars, write_vars, id_vars, host_vars, tool_vars,
                   env_pipe, handler, request_str, response_str, slot_vars,
                   pipes, call_vars>>

(***************************************************************************)
(* Spec: the loop thread, CelbridgeRpcService._run and _handle_client      *)
(***************************************************************************)
Goto(t, where) == pc' = [pc EXCEPT ![t] = where]

\* a plausible slip: the loops go on whatever the flag says
ContinueAlways(t) == TRUE

\* the test of `while self.running` (lines 63 and 87)
Continue(t) == running[thread_svc[t]]

\* while self.running:  (line 63)
RunCheck(t) ==
    /\ pc[t] = "run"
    /\ Goto(t, IF Continue(t) THEN "create" ELSE "exit")
    /\ UNCHANGED <<frame_vars, write_vars, id_vars, host_vars, tool_vars,
                   init_vars, lifecycle_vars, thread_svc, handler, request_str,
                   response_str, slot_vars, pipes, call_vars>>

\* a plausible slip: the failure of accept_client leaves _run as an exception
AcceptFailureEscapes(t) == "exit"

\* accept_client returns None on every failure (named_pipe.py:157-174), and
\* _run, whose `if handler:` is then false, goes back to its while
AfterAcceptFails(t) == "run"

\* accept_client: win32pipe.CreateNamedPipe(..., 1, ...) (named_pipe.py:137).
\* It fails while MaxInstances instances of the pipe exist; accept_client
\* then returns None and _run goes back to its while.
CreateNamedPipeStep(t) ==
    /\ pc[t] = "create"
    /\ IF Cardinality(OpenInstances) >= MaxInstances
       THEN /\ Goto(t, AfterAcceptFails(t))
            /\ UNCHANGED <<handler, pipes>>
       ELSE LET h == n_conns + 1
            IN  /\ n_conns < MaxConns
                /\ pipes' = [pipes EXCEPT ![h].state = "listening"]
                /\ handler' = [handler EXCEPT ![t] = h]
                /\ Goto(t, "connect")
    /\ UNCHANGED <<frame_vars, write_vars, id_vars, host_vars, init_vars,
                   lifecycle_vars, thread_svc, request_str, response_str,
                   slot_vars, call_vars>>

\* the same, in the specifications that do not look at what is logged
CreateNamedPipe(t) == CreateNamedPipeStep(t) /\ UNCHANGED tool_vars

\* accept_client: ConnectNamedPipe returns once a client has connected;
\* _run enters _handle_client(handler)
ConnectNamedPipeStep(t) ==
    /\ pc[t] = "connect"
    /\ pipes[handler[t]].state = "connected"
    /\ Goto(t, "publish")
    /\ UNCHANGED <<frame_vars, write_vars, id_vars, host_vars, init_vars,
                   lifecycle_vars, thread_svc, handler, request_str,
                   response_str, slot_vars, pipes, call_vars>>

\* the same, in the specifications that do not look at when it returned
ConnectNamedPipe(t) == ConnectNamedPipeStep(t) /\ UNCHANGED tool_vars

\* accept_client: ConnectNamedPipe raises; the handle is closed and
\* accept_client returns None (named_pipe.py:157-174)
ConnectFailsStep(t) ==
    /\ pc[t] = "connect"
    /\ pipes[handler[t]].state = "listening"
    /\ pipes' = [pipes EXCEPT ![handler[t]] = ClosedPipe(@)]
    /\ handler' = [handler EXCEPT ![t] = NoHandle]
    /\ Goto(t, AfterAcceptFails(t))
    /\ UNCHANGED <<frame_vars, write_vars, id_vars, host_vars, init_vars,
                   lifecycle_vars, thread_svc, request_str, response_str,
                   slot_vars, call_vars>>

\* the same, in the specifications that do not look at what is logged
ConnectFails(t) == ConnectFailsStep(t) /\ UNCHANGED tool_vars

\* a plausible slip: a failure of accept_client is logged whether or not the
\* service is running
AcceptErrorLogAlways(t) == "error"

\* accept_client's except branches (named_pipe.py:159-161, 168-170):
\* if running_flag(): logger.error(...)
AcceptErrorLog(t) == IF running[thread_svc[t]] THEN "error" ELSE "nothing"

\* accept_client from its call to CreateNamedPipe, with what it logs when
\* that fails (lines 135-146, 157-174)
AcceptClientCreate(t) ==
    /\ CreateNamedPipeStep(t)
    /\ accept_logged' =
          [accept_logged EXCEPT
              ![t] = IF Cardinality(OpenInstances) >= MaxInstances
                     THEN AcceptErrorLog(t) ELSE "none"]
    /\ accept_stopped' = [accept_stopped EXCEPT ![t] = FALSE]
    /\ UNCHANGED beside_accept

\* accept_client returns the handler of the connected pipe (lines 151-155);
\* it does not look at running_flag() on this path
AcceptClientConnected(t) ==
    /\ ConnectNamedPipeStep(t)
    /\ accept_stopped' = [accept_stopped EXCEPT ![t] = ~running[thread_svc[t]]]
    /\ UNCHANGED <<beside_accept, accept_logged>>

\* ConnectNamedPipe raises, with what accept_client logs (lines 157-174)
AcceptClientFails(t) ==
    /\ ConnectFailsStep(t)
    /\ accept_logged' = [accept_logged EXCEPT ![t] = AcceptErrorLog(t)]
    /\ UNCHANGED <<beside_accept, accept_stopped>>

\* with _pipe_handler_lock:  (entering, lines 83 and 120)
LockAcquire(t, from, to) ==
    /\ pc[t] = from
    /\ pipe_handler_lock = Unlocked
    /\ pipe_handler_lock' = LoopThread(t)
    /\ Goto(t, to)
    /\ UNCHANGED <<frame_vars, write_vars, id_vars, host_vars, tool_vars,
                   init_vars, lifecycle_vars, thread_svc, handler, request_str,
                   response_str, pipe_handler, pipes, call_vars>>

PublishLock(t) == LockAcquire(t, "publish", "publish_locked")

\* a plausible slip: the lock is taken and not released before the loop
LockKeptAfterPublish(t) == LoopThread(t)

\* the lock once the with block of lines 83-84 is left
LockAfterPublish(t) == Unlocked

\* _pipe_handler = handler, under the lock (line 84)
Publish(t) ==
    /\ pc[t] = "publish_locked"
    /\ pipe_handler' = handler[t]
    /\ pipe_handler_lock' = LockAfterPublish(t)
    /\ Goto(t, "loop")
    /\ UNCHANGED <<frame_vars, write_vars, id_vars, host_vars, tool_vars,
                   init_vars, lifecycle_vars, thread_svc, handler, request_str,
                   response_str, pipes, call_vars>>

\* while self.running:  (line 87)
LoopCheck(t) ==
    /\ pc[t] = "loop"
    /\ Goto(t, IF Continue(t) THEN "read" ELSE "clear")
    /\ UNCHANGED <<frame_vars, write_vars, id_vars, host_vars, tool_vars,
                   init_vars, lifecycle_vars, thread_svc, handler, request_str,
                   response_str, slot_vars, pipes, call_vars>>

\* a blocking read_message on pipe h can return: a frame has arrived, or
\* the peer has closed its end
CanRead(h) == pipes[h].inq # <<>> \/ ~pipes[h].peer_open

\* request_str = handler.read_message(); if not request_str: break
ReadRequest(t) ==
    LET h == handler[t]
    IN  /\ pc[t] = "read"
        /\ CanRead(h)
        /\ IF pipes[h].inq = <<>>
           THEN /\ Goto(t, "clear")
                /\ UNCHANGED <<pipes, request_str>>
           ELSE LET r == ReadWholeFrame(Head(pipes[h].inq))
                IN  IF r.kind = "None"
                    THEN /\ pipes' = [pipes EXCEPT ![h].inq = Tail(@)]
                         /\ Goto(t, "clear")
                         /\ UNCHANGED request_str
                    ELSE /\ pipes' = [pipes EXCEPT ![h].inq = Tail(@),
                                                   ![h].reads = Append(@, r.frame)]
                         /\ request_str' = [request_str EXCEPT ![t] = r.frame]
                         /\ Goto(t, "dispatch")
        /\ UNCHANGED <<frame_vars, write_vars, id_vars, host_vars, tool_vars,
                       init_vars, lifecycle_vars, thread_svc, handler,
                       response_str, slot_vars, call_vars>>

\* response_str = dispatch(request_str), or the jump to the except branch
Dispatch(t) ==
    /\ pc[t] = "dispatch"
    /\ IF DispatchRaises(request_str[t])
       THEN /\ Goto(t, "write_error")
            /\ UNCHANGED response_str
       ELSE /\ response_str' = [response_str EXCEPT ![t] = dispatch(request_str[t])]
            /\ Goto(t, "write")
    /\ UNCHANGED <<frame_vars, write_vars, id_vars, host_vars, tool_vars,
                   init_vars, lifecycle_vars, thread_svc, handler, request_str,
                   slot_vars, pipes, call_vars>>

\* WriteFile succeeds on a pipe whose handle is open and whose peer is there
CanWrite(h) == pipes[h].state = "connected" /\ pipes[h].peer_open

\* the pipes after write_message(body) by writer `by` on pipe h
AfterWrite(h, by, body) ==
    IF CanWrite(h)
    THEN [pipes EXCEPT ![h].out = Append(@, [by |-> by, body |-> body])]
    ELSE pipes

\* a plausible slip: the loop answers every request with error_response
WrittenAlwaysError(t) == error_response

\* the argument of handler.write_message at line 102
WrittenResponse(t) == response_str[t]

\* a plausible slip: the loop leaves the connection after every response
LeaveAfterResponse(ok) == "clear"

\* if not handler.write_message(response_str): break   (lines 102-104)
AfterWriteResponse(ok) == IF ok THEN "loop" ELSE "clear"

WriteResponse(t) ==
    LET h == handler[t]
    IN  /\ pc[t] = "write"
        /\ pipes' = AfterWrite(h, "loop", WrittenResponse(t))
        /\ Goto(t, AfterWriteResponse(CanWrite(h)))
        /\ UNCHANGED <<frame_vars, write_vars, id_vars, host_vars, tool_vars,
                       init_vars, lifecycle_vars, thread_svc, handler,
                       request_str, response_str, slot_vars, call_vars>>

\* a plausible slip: the except branch ends the connection
LeaveAfterError(t) == "clear"

\* where the loop goes after the except branch has written error_response:
\* the result of write_message is not looked at, the while goes on
AfterWriteError(t) == "loop"

\* except Exception: handler.write_message(error_response)  (lines 106-117)
WriteErrorResponse(t) ==
    LET h == handler[t]
    IN  /\ pc[t] = "write_error"
        /\ pipes' = AfterWrite(h, "loop", error_response)
        /\ Goto(t, AfterWriteError(t))
        /\ UNCHANGED <<frame_vars, write_vars, id_vars, host_vars, tool_vars,
                       init_vars, lifecycle_vars, thread_svc, handler,
                       request_str, response_str, slot_vars, call_vars>>

ClearLock(t) == LockAcquire(t, "clear", "clear_locked")

\* a plausible slip: the finally block leaves the slot as it is
SlotKeptAfterClear(t) == pipe_handler

\* the slot after the finally block's assignment (line 121)
SlotAfterClear(t) == NoHandle

\* finally: with _pipe_handler_lock: _pipe_handler = None; _handle_client
\* returns and its locals are gone
Clear(t) ==
    /\ pc[t] = "clear_locked"
    /\ pipe_handler' = SlotAfterClear(t)
    /\ pipe_handler_lock' = Unlocked
    /\ request_str' = [request_str EXCEPT ![t] = EmptyFrame(0)]
    /\ response_str' = [response_str EXCEPT ![t] = EmptyString]
    /\ Goto(t, "close")
    /\ UNCHANGED <<frame_vars, write_vars, id_vars, host_vars, tool_vars,
                   init_vars, lifecycle_vars, thread_svc, handler, pipes,
                   call_vars>>

\* a plausible slip: _run returns once its connection has ended
ExitAfterClose(t) == "exit"

\* after close_pipe the body of _run's while is over: back to line 63
AfterClose(t) == "run"

\* NamedPipeServer.close_pipe(handler)  (line 72)
ClosePipe(t) ==
    /\ pc[t] = "close"
    /\ pipes' = [pipes EXCEPT ![handler[t]] = ClosedPipe(@)]
    /\ handler' = [handler EXCEPT ![t] = NoHandle]
    /\ Goto(t, AfterClose(t))
    /\ UNCHANGED <<frame_vars, write_vars, id_vars, host_vars, tool_vars,
                   init_vars, lifecycle_vars, thread_svc, request_str,
                   response_str, slot_vars, call_vars>>

\* a plausible slip: the error of closing a closed handle is let through
ClosePipeRaisesIfClosed(h) == pipes[h].state # "closed"

\* close_pipe returns: what CloseHandle raises is caught and logged
\* (named_pipe.py:183-186)
ClosePipeReturns(h) == TRUE

\* NamedPipeServer.close_pipe(handler), called by a thread other than the
\* loop on the handler it got from get_pipe_handler(), or once more on a
\* handler that has been closed
ClosePipeCall(h) ==
    /\ pipes[h].state = "closed" \/ pipe_handler = h
    /\ ClosePipeReturns(h)
    /\ pipes' = [pipes EXCEPT ![h] = ClosedPipe(@)]
    /\ UNCHANGED <<frame_vars, write_vars, id_vars, host_vars, tool_vars,
                   init_vars, lifecycle_vars, thread_vars, slot_vars, call_vars>>

(***************************************************************************)
(* Spec: the peer (the process at the other end of the pipe)               *)
(***************************************************************************)
PeerConnect(h) ==
    /\ pipes[h].state = "listening"
    /\ pipes' = [pipes EXCEPT ![h].state = "connected", ![h].peer_open = TRUE]
    /\ UNCHANGED <<frame_vars, write_vars, id_vars, host_vars, tool_vars,
                   init_vars, lifecycle_vars, thread_vars, slot_vars, call_vars>>

PeerSend(h, frame) ==
    /\ pipes[h].state = "connected"
    /\ pipes[h].peer_open
    /\ n_frames < MaxFrames
    /\ frame.seq = pipes[h].sent + 1
    /\ pipes' = [pipes EXCEPT ![h].inq = Append(@, frame), ![h].sent = @ + 1]
    /\ UNCHANGED <<frame_vars, write_vars, id_vars, host_vars, tool_vars,
                   init_vars, lifecycle_vars, thread_vars, slot_vars, call_vars>>

\* the peer sends a request of one of `kinds`, with or (when notifications
\* is TRUE) without an id
PeerSendRequest(h, kinds, notifications) ==
    LET seq == pipes[h].sent + 1
    IN  \E kind \in kinds,
           id \in Ids(seq) \cup (IF notifications THEN {NoId} ELSE {}) :
            PeerSend(h, Request(seq, kind, id))

\* the peer of SpecLifecycle: requests with an id, MaxLifecycleFrames of them
PeerSendFew(h) ==
    /\ n_frames < MaxLifecycleFrames
    /\ PeerSendRequest(h, {"ok", "dispatch_raises"}, FALSE)

\* the peer sends a get_version request with an id of its own
PeerSendVersionRequest(h) ==
    PeerSend(h, Request(pipes[h].sent + 1, "ok", pipes[h].sent + 1))

\* the peer answers an outbound call, in any of the ways of ResponseKinds
PeerSendResponse(h) ==
    \E kind \in ResponseKinds : PeerSend(h, Response(pipes[h].sent + 1, kind))

PeerSendEmpty(h) == PeerSend(h, EmptyFrame(pipes[h].sent + 1))

PeerClose(h) ==
    /\ pipes[h].state = "connected"
    /\ pipes[h].peer_open
    /\ pipes' = [pipes EXCEPT ![h].peer_open = FALSE]
    /\ UNCHANGED <<frame_vars, write_vars, id_vars, host_vars, tool_vars,
                   init_vars, lifecycle_vars, thread_vars, slot_vars, call_vars>>

(***************************************************************************)
(* Spec: an outbound call, call_csharp_method                              *)
(***************************************************************************)
\* get_pipe_handler(): with _pipe_handler_lock:  (entering, line 178)
CallLock ==
    /\ call_pc = "idle"
    /\ n_calls < MaxCalls
    /\ pipe_handler_lock = Unlocked
    /\ pipe_handler_lock' = Caller
    /\ call_pc' = "locked"
    /\ call_result' = "none"
    /\ call_value' = NoValue
    /\ UNCHANGED <<frame_vars, write_vars, id_vars, host_vars, tool_vars,
                   init_vars, lifecycle_vars, thread_vars, pipe_handler, pipes,
                   call_handler, n_calls, call_sent>>

\* a plausible slip: the call polls the slot until a peer is attached
NoHandlerWaits == [pc |-> "locked", result |-> "none"]

\* what call_csharp_method does when get_pipe_handler() returned None
\* (lines 203-204): raise RpcError
NoHandlerOutcome == [pc |-> "idle", result |-> "RpcError_NoConnection"]

\* return _pipe_handler (line 179), then lines 202-204
CallGetPipeHandler ==
    /\ call_pc = "locked"
    /\ pipe_handler_lock' = Unlocked
    /\ call_handler' = pipe_handler
    /\ n_calls' = n_calls + 1
    /\ IF pipe_handler = NoHandle
       THEN /\ call_pc' = NoHandlerOutcome.pc
            /\ call_result' = NoHandlerOutcome.result
       ELSE /\ call_pc' = "write"
            /\ UNCHANGED call_result
    /\ UNCHANGED <<frame_vars, write_vars, id_vars, host_vars, tool_vars,
                   init_vars, lifecycle_vars, thread_vars, pipe_handler, pipes,
                   call_value, call_sent>>

\* call_csharp_method is left by return or raise: its local is gone
CallEnds == call_handler' = NoHandle /\ call_sent' = 0

\* if not pipe_handler.write_message(request_str): raise RpcError (210-212)
CallWrite ==
    LET h == call_handler
    IN  /\ call_pc = "write"
        /\ pipes' = AfterWrite(h, "call", OutboundRequest(n_calls))
        /\ IF CanWrite(h)
           THEN /\ call_pc' = "read"
                /\ call_sent' = pipes[h].sent
                /\ UNCHANGED call_result
                /\ UNCHANGED call_handler
           ELSE /\ call_pc' = "idle"
                /\ call_result' = "RpcError_Send"
                /\ CallEnds
        /\ UNCHANGED <<frame_vars, write_vars, id_vars, host_vars, tool_vars,
                       init_vars, lifecycle_vars, thread_vars, slot_vars,
                       n_calls, call_value>>

\* jsonrpcclient.parse_json(response_str) (line 220): Ok for an object with
\* "result", Error for another object with "error", a lazy map for an
\* array; it raises json.JSONDecodeError on a body that is not JSON and
\* KeyError on an object with neither member, such as a request
parse_json(frame) ==
    CASE frame.kind = "response_ok"    -> "Ok"
      [] frame.kind = "response_error" -> "Error"
      [] frame.kind = "batch"          -> "map"
      [] frame.kind = "not_json"       -> "JSONDecodeError"
      [] OTHER                         -> "KeyError"

\* a plausible slip: an error response ends the call without an exception
RemoteFailureSwallowed == [result |-> "return", value |-> NoValue]

\* raise RpcError(f"RPC error in '{method}': {response.message} (code:
\* {response.code})")  (lines 225-226)
RemoteFailure == [result |-> "RpcError_Remote", value |-> PeerErrorCode]

\* how call_csharp_method ends once it has read a frame (lines 220-228)
CallOutcome(frame) ==
    LET response == parse_json(frame)
    IN  CASE response = "Ok"    -> [result |-> "return", value |-> PeerResult]
          [] response = "Error" -> RemoteFailure
          [] response = "map"   -> [result |-> "RpcError_Unexpected", value |-> NoValue]
          [] OTHER              -> [result |-> response, value |-> NoValue]

\* a plausible slip: the call leaves frames that are not responses alone
CallTakesResponsesOnly(frame) == frame.kind \in ResponseKinds

\* the frames pipe_handler.read_message() takes off the pipe for the call
\* (line 215): whichever is next
CallTakes(frame) == TRUE

\* response_str = pipe_handler.read_message() and what follows (214-228).
\* A read on a handle the service has closed fails; the frame read is
\* whatever is next on the pipe.
CallRead ==
    LET h == call_handler
    IN  /\ call_pc = "read"
        /\ pipes[h].state # "connected" \/ CanRead(h)
        /\ IF pipes[h].state = "connected" /\ pipes[h].inq # <<>>
           THEN LET frame == Head(pipes[h].inq)
                IN  /\ CallTakes(frame)
                    /\ pipes' = [pipes EXCEPT ![h].inq = Tail(@)]
                    /\ IF ReadWholeFrame(frame).kind = "None"
                       THEN /\ call_result' = "RpcError_Receive"
                            /\ UNCHANGED call_value
                       ELSE /\ call_result' = CallOutcome(frame).result
                            /\ call_value' = CallOutcome(frame).value
           ELSE /\ call_result' = "RpcError_Receive"
                /\ UNCHANGED <<pipes, call_value>>
        /\ call_pc' = "idle"
        /\ CallEnds
        /\ UNCHANGED <<frame_vars, write_vars, id_vars, host_vars, tool_vars,
                       init_vars, lifecycle_vars, thread_vars, slot_vars,
                       n_calls>>

(***************************************************************************)
(* Spec                                                                    *)
(***************************************************************************)
Init == InitService /\ FrameAtRest

Next ==
    \/ InitializeRpcService
    \/ ShutdownRpcService
    \/ \E s \in Services : Start(s)
    \/ \E s \in Services : Stop(s)
    \/ \E t \in Threads : RunCheck(t)
    \/ \E t \in Threads : CreateNamedPipe(t)
    \/ \E t \in Threads : ConnectNamedPipe(t)
    \/ \E t \in Threads : ConnectFails(t)
    \/ \E t \in Threads : PublishLock(t)
    \/ \E t \in Threads : Publish(t)
    \/ \E t \in Threads : LoopCheck(t)
    \/ \E t \in Threads : ReadRequest(t)
    \/ \E t \in Threads : Dispatch(t)
    \/ \E t \in Threads : WriteResponse(t)
    \/ \E t \in Threads : WriteErrorResponse(t)
    \/ \E t \in Threads : ClearLock(t)
    \/ \E t \in Threads : Clear(t)
    \/ \E t \in Threads : ClosePipe(t)
    \/ \E h \in Handles : PeerConnect(h)
    \/ \E h \in Handles : PeerSendRequest(h, {"ok", "dispatch_raises"}, FALSE)
    \/ \E h \in Handles : PeerSendEmpty(h)
    \/ \E h \in Handles : PeerClose(h)
    \/ CallLock
    \/ CallGetPipeHandler
    \/ CallWrite
    \/ CallRead

Spec == Init /\ [][Next]_vars

(***************************************************************************)
(* SpecLoop: one service, initialized once and possibly stopped, serving   *)
(* every kind of request                                                   *)
(***************************************************************************)
InitLoop == Init /\ env_pipe = "name"

NextLoop ==
    \/ InitializeRpcService
    \/ \E s \in Services : Stop(s)
    \/ \E t \in Threads : RunCheck(t)
    \/ \E t \in Threads : CreateNamedPipe(t)
    \/ \E t \in Threads : ConnectNamedPipe(t)
    \/ \E t \in Threads : PublishLock(t)
    \/ \E t \in Threads : Publish(t)
    \/ \E t \in Threads : LoopCheck(t)
    \/ \E t \in Threads : ReadRequest(t)
    \/ \E t \in Threads : Dispatch(t)
    \/ \E t \in Threads : WriteResponse(t)
    \/ \E t \in Threads : WriteErrorResponse(t)
    \/ \E t \in Threads : ClearLock(t)
    \/ \E t \in Threads : Clear(t)
    \/ \E t \in Threads : ClosePipe(t)
    \/ \E h \in Handles : PeerConnect(h)
    \/ \E h \in Handles : PeerSendRequest(h, LoopKinds, TRUE)
    \/ \E h \in Handles : PeerSendEmpty(h)
    \/ \E h \in Handles : PeerClose(h)

SpecLoop == InitLoop /\ [][NextLoop]_vars

(***************************************************************************)
(* SpecDispatch: the loop thread of one service that is never stopped, and *)
(* a peer that calls both registered methods and unknown ones, with an id  *)
(* and as notifications                                                    *)
(***************************************************************************)
NextDispatch ==
    \/ InitializeRpcService
    \/ \E t \in Threads : RunCheck(t)
    \/ \E t \in Threads : CreateNamedPipe(t)
    \/ \E t \in Threads : ConnectNamedPipe(t)
    \/ \E t \in Threads : PublishLock(t)
    \/ \E t \in Threads : Publish(t)
    \/ \E t \in Threads : LoopCheck(t)
    \/ \E t \in Threads : ReadRequest(t)
    \/ \E t \in Threads : Dispatch(t)
    \/ \E t \in Threads : WriteResponse(t)
    \/ \E t \in Threads : ClearLock(t)
    \/ \E t \in Threads : Clear(t)
    \/ \E t \in Threads : ClosePipe(t)
    \/ \E h \in Handles : PeerConnect(h)
    \/ \E h \in Handles : PeerSendRequest(h, DispatchKinds, TRUE)
    \/ \E h \in Handles : PeerClose(h)

SpecDispatch == InitLoop /\ [][NextDispatch]_vars

(***************************************************************************)
(* SpecServe: one service, initialized once and possibly stopped, and its  *)
(* peers, with a loop thread that the scheduler does not starve            *)
(***************************************************************************)
\* a step of loop thread t
LoopThreadStep(t) ==
    \/ RunCheck(t)
    \/ CreateNamedPipe(t)
    \/ ConnectNamedPipe(t)
    \/ PublishLock(t)
    \/ Publish(t)
    \/ LoopCheck(t)
    \/ ReadRequest(t)
    \/ Dispatch(t)
    \/ WriteResponse(t)
    \/ WriteErrorResponse(t)
    \/ ClearLock(t)
    \/ Clear(t)
    \/ ClosePipe(t)

\* a thread that can take a step is scheduled in the end
FairLoop == \A t \in Threads : WF_vars(LoopThreadStep(t))

NextServe ==
    \/ InitializeRpcService
    \/ \E s \in Services : Stop(s)
    \/ \E t \in Threads : RunCheck(t)
    \/ \E t \in Threads : CreateNamedPipe(t)
    \/ \E t \in Threads : ConnectNamedPipe(t)
    \/ \E t \in Threads : PublishLock(t)
    \/ \E t \in Threads : Publish(t)
    \/ \E t \in Threads : LoopCheck(t)
    \/ \E t \in Threads : ReadRequest(t)
    \/ \E t \in Threads : Dispatch(t)
    \/ \E t \in Threads : WriteResponse(t)
    \/ \E t \in Threads : WriteErrorResponse(t)
    \/ \E t \in Threads : ClearLock(t)
    \/ \E t \in Threads : Clear(t)
    \/ \E t \in Threads : ClosePipe(t)
    \/ \E h \in Handles : PeerConnect(h)
    \/ \E h \in Handles : PeerSendRequest(h, {"ok", "dispatch_raises"}, FALSE)
    \/ \E h \in Handles : PeerSendEmpty(h)
    \/ \E h \in Handles : PeerClose(h)

SpecServe == InitLoop /\ [][NextServe]_vars /\ FairLoop

(***************************************************************************)
(* SpecCall: one service, initialized once and possibly stopped, its peer  *)
(* and a thread making outbound calls                                      *)
(***************************************************************************)
NextCall ==
    \/ InitializeRpcService
    \/ \E s \in Services : Stop(s)
    \/ \E t \in Threads : RunCheck(t)
    \/ \E t \in Threads : CreateNamedPipe(t)
    \/ \E t \in Threads : ConnectNamedPipe(t)
    \/ \E t \in Threads : PublishLock(t)
    \/ \E t \in Threads : Publish(t)
    \/ \E t \in Threads : LoopCheck(t)
    \/ \E t \in Threads : ReadRequest(t)
    \/ \E t \in Threads : Dispatch(t)
    \/ \E t \in Threads : WriteResponse(t)
    \/ \E t \in Threads : WriteErrorResponse(t)
    \/ \E t \in Threads : ClearLock(t)
    \/ \E t \in Threads : Clear(t)
    \/ \E t \in Threads : ClosePipe(t)
    \/ \E h \in Handles : PeerConnect(h)
    \/ \E h \in Handles : PeerSendRequest(h, {"ok", "dispatch_raises"}, FALSE)
    \/ \E h \in Handles : PeerSendEmpty(h)
    \/ \E h \in Handles : PeerClose(h)
    \/ CallLock
    \/ CallGetPipeHandler
    \/ CallWrite
    \/ CallRead

SpecCall == Init /\ [][NextCall]_vars

(***************************************************************************)
(* SpecOutbound: one running service, a thread making outbound calls and   *)
(* a peer that sends requests and answers of every kind                    *)
(***************************************************************************)
NextOutbound ==
    \/ InitializeRpcService
    \/ \E t \in Threads : RunCheck(t)
    \/ \E t \in Threads : CreateNamedPipe(t)
    \/ \E t \in Threads : ConnectNamedPipe(t)
    \/ \E t \in Threads : PublishLock(t)
    \/ \E t \in Threads : Publish(t)
    \/ \E t \in Threads : LoopCheck(t)
    \/ \E t \in Threads : ReadRequest(t)
    \/ \E t \in Threads : Dispatch(t)
    \/ \E t \in Threads : WriteResponse(t)
    \/ \E t \in Threads : ClearLock(t)
    \/ \E t \in Threads : Clear(t)
    \/ \E t \in Threads : ClosePipe(t)
    \/ \E h \in Handles : PeerConnect(h)
    \/ \E h \in Handles : PeerSendVersionRequest(h)
    \/ \E h \in Handles : PeerSendResponse(h)
    \/ \E h \in Handles : PeerClose(h)
    \/ CallLock
    \/ CallGetPipeHandler
    \/ CallWrite
    \/ CallRead

SpecOutbound == InitLoop /\ [][NextOutbound]_vars

(***************************************************************************)
(* SpecInit: threads that call initialize_rpc_service once each, while the *)
(* service is stopped and started; the loop threads wait for a peer that   *)
(* does not come                                                           *)
(***************************************************************************)
NextInit ==
    \/ \E c \in InitCallers : InitEnv(c)
    \/ \E c \in InitCallers : InitAcquire(c)
    \/ \E c \in InitCallers : InitLocked(c)
    \/ \E s \in Services : Start(s)
    \/ \E s \in Services : Stop(s)
    \/ \E t \in Threads : RunCheck(t)
    \/ \E t \in Threads : CreateNamedPipe(t)
    \/ \E t \in Threads : ConnectFails(t)

SpecInit == Init /\ [][NextInit]_vars

(***************************************************************************)
(* SpecWire: the loop thread reading its connection byte by byte, as       *)
(* read_message does, from a peer that writes well-formed frames, header   *)
(* blocks without a Content-Length line, and frames cut short, and that    *)
(* may leave at any point.  The peer connects once, to the first instance. *)
(***************************************************************************)
WireHandle == 1

\* b"X:1\r\n\r\n": a header block with no Content-Length line
NoLengthHeaders == <<88, 58, 49>> \o HeaderEnd

\* what the peer hands to one WriteFile
WireChunks ==
    {FullMessage(<<"a">>), NoLengthHeaders, FrameHeaders(1), FrameHeaders(2), <<97>>}

WirePeerWrite ==
    /\ pipes[WireHandle].state = "connected"
    /\ pipes[WireHandle].peer_open
    /\ pipes[WireHandle].sent < MaxFrames
    /\ \E chunk \in WireChunks : pipe_bytes' = pipe_bytes \o chunk
    /\ pipes' = [pipes EXCEPT ![WireHandle].sent = @ + 1]
    /\ UNCHANGED <<message, written, writer_closed, read_pc, headers,
                   content_length, read_result, init_vars, lifecycle_vars,
                   thread_vars, slot_vars, call_vars, write_vars, id_vars,
                   host_vars, tool_vars>>

WirePeerClose ==
    /\ pipes[WireHandle].state = "connected"
    /\ pipes[WireHandle].peer_open
    /\ pipes' = [pipes EXCEPT ![WireHandle].peer_open = FALSE]
    /\ writer_closed' = TRUE
    /\ UNCHANGED <<message, written, pipe_bytes, read_pc, headers, content_length,
                   read_result, init_vars, lifecycle_vars, thread_vars, slot_vars,
                   call_vars, write_vars, id_vars, host_vars, tool_vars>>

\* request_str = handler.read_message()  (line 89): the call
LoopReadCall(t) ==
    /\ pc[t] = "read"
    /\ handler[t] = WireHandle
    /\ ReadMessageCall

\* the body read_message returned, as dispatch sees it: text that is not
\* JSON
WireRequest(t) == Response(pipes[handler[t]].sent, "not_json")

\* read_message has returned; if not request_str: break  (lines 89-92)
LoopReadReturn(t) ==
    /\ pc[t] = "read"
    /\ read_pc = "done"
    /\ read_pc' = "idle"
    /\ IF read_result.kind = "None" \/ read_result.str = <<>>
       THEN /\ Goto(t, "clear")
            /\ UNCHANGED request_str
       ELSE /\ request_str' = [request_str EXCEPT ![t] = WireRequest(t)]
            /\ Goto(t, "dispatch")
    /\ UNCHANGED <<message, written, pipe_bytes, writer_closed, headers,
                   content_length, read_result, init_vars, lifecycle_vars,
                   thread_svc, handler, response_str, slot_vars, pipes,
                   call_vars, write_vars, id_vars, host_vars, tool_vars>>

\* a step of loop thread t in SpecWire
WireThreadStep(t) ==
    \/ RunCheck(t)
    \/ CreateNamedPipe(t)
    \/ ConnectNamedPipe(t)
    \/ PublishLock(t)
    \/ Publish(t)
    \/ LoopCheck(t)
    \/ LoopReadCall(t)
    \/ pc[t] = "read" /\ (ReadHeaderByte \/ ParseHeaders \/ ReadBody)
    \/ LoopReadReturn(t)
    \/ Dispatch(t)
    \/ WriteResponse(t)
    \/ ClearLock(t)
    \/ Clear(t)
    \/ ClosePipe(t)

FairWire == \A t \in Threads : WF_vars(WireThreadStep(t))

NextWire ==
    \/ InitializeRpcService
    \/ \E t \in Threads : RunCheck(t)
    \/ \E t \in Threads : CreateNamedPipe(t)
    \/ \E t \in Threads : ConnectNamedPipe(t)
    \/ \E t \in Threads : PublishLock(t)
    \/ \E t \in Threads : Publish(t)
    \/ \E t \in Threads : LoopCheck(t)
    \/ \E t \in Threads : LoopReadCall(t)
    \/ ReadHeaderByte
    \/ ParseHeaders
    \/ ReadBody
    \/ \E t \in Threads : LoopReadReturn(t)
    \/ \E t \in Threads : Dispatch(t)
    \/ \E t \in Threads : WriteResponse(t)
    \/ \E t \in Threads : ClearLock(t)
    \/ \E t \in Threads : Clear(t)
    \/ \E t \in Threads : ClosePipe(t)
    \/ PeerConnect(WireHandle)
    \/ WirePeerWrite
    \/ WirePeerClose

SpecWire == InitLoop /\ [][NextWire]_vars /\ FairWire

(***************************************************************************)
(* SpecWrite: the loop thread and a thread inside call_csharp_method, each *)
(* calling write_message once on the same connection                       *)
(***************************************************************************)
\* a plausible slip: the header and the body are written one after the other
WriteFileCallsSplit(body) ==
    LET message_bytes == Utf8Encode(body)
    IN  <<FrameHeaders(Len(message_bytes)), message_bytes>>

\* the WriteFile calls of write_message(message): one, of
\* full_message = headers + message_bytes  (named_pipe.py:74-80)
WriteFileCalls(body) == <<FullMessage(body)>>

\* write_message(message) is entered by writer w
WriteMessageCall(w) ==
    /\ write_msg[w] = NotWriting
    /\ \E body \in Strings(MaxBody) :
          /\ write_msg' = [write_msg EXCEPT ![w] = Writing(body)]
          /\ write_calls' = [write_calls EXCEPT ![w] = WriteFileCalls(body)]
    /\ UNCHANGED <<frame_vars, init_vars, lifecycle_vars, thread_vars, slot_vars,
                   pipes, call_vars, id_vars, host_vars, tool_vars, wire_out>>

\* win32file.WriteFile(self.pipe_handle, ...): the bytes of one call reach
\* the pipe together; after the last call write_message returns True
WriteFile(w) ==
    /\ write_calls[w] # <<>>
    /\ wire_out' = wire_out \o Head(write_calls[w])
    /\ write_calls' = [write_calls EXCEPT ![w] = Tail(@)]
    /\ write_msg' = [write_msg EXCEPT ![w] =
                        IF Tail(write_calls[w]) = <<>> THEN Written(@.message) ELSE @]
    /\ UNCHANGED <<frame_vars, init_vars, lifecycle_vars, thread_vars, slot_vars,
                   pipes, call_vars, id_vars, host_vars, tool_vars>>

NextWrite ==
    \/ \E w \in Writers : WriteMessageCall(w)
    \/ \E w \in Writers : WriteFile(w)

SpecWrite == InitLoop /\ [][NextWrite]_vars

(***************************************************************************)
(* SpecIds: threads that make outbound calls one after the other and at    *)
(* the same time, on a connection that the peer may replace by a new one   *)
(***************************************************************************)
\* a plausible slip: every request is built with the same id
ConstantRequestId(n) == 1

\* the id request_json gives a request: next(id_generator) of the counting
\* generator jsonrpcclient creates once, when it is imported (line 207)
NextRequestId(n) == n

\* request_str = request_json(method, params=params)  (line 207)
RequestJson(c) ==
    /\ request_id[c] = NoId
    /\ next_id <= MaxIds
    /\ request_id' = [request_id EXCEPT ![c] = NextRequestId(next_id)]
    /\ next_id' = next_id + 1
    /\ UNCHANGED <<frame_vars, write_vars, host_vars, tool_vars, init_vars,
                   lifecycle_vars, thread_vars, slot_vars, pipes, call_vars,
                   sent_ids>>

\* pipe_handler.write_message(request_str)  (line 211), and the rest of the
\* call
WriteRequest(c) ==
    /\ request_id[c] # NoId
    /\ sent_ids' = Append(sent_ids, request_id[c])
    /\ request_id' = [request_id EXCEPT ![c] = NoId]
    /\ UNCHANGED <<frame_vars, write_vars, host_vars, tool_vars, init_vars,
                   lifecycle_vars, thread_vars, slot_vars, pipes, call_vars,
                   next_id>>

\* the peer leaves and a new peer connects: the slot holds a new connection
\* (lines 83-84), on which nothing has been written
NewConnection ==
    /\ sent_ids # <<>>
    /\ sent_ids' = <<>>
    /\ UNCHANGED <<frame_vars, write_vars, host_vars, tool_vars, init_vars,
                   lifecycle_vars, thread_vars, slot_vars, pipes, call_vars,
                   next_id, request_id>>

NextIds ==
    \/ \E c \in IdCallers : RequestJson(c)
    \/ \E c \in IdCallers : WriteRequest(c)
    \/ NewConnection

SpecIds == InitLoop /\ [][NextIds]_vars

(***************************************************************************)
(* SpecAccept: the loop thread with every failure it can meet: accept      *)
(* fails, the peer leaves, a frame cannot be read, dispatch raises, a      *)
(* handler fails, a write fails; stop() at any moment.  What accept_client *)
(* logs and when it returns are recorded.                                  *)
(***************************************************************************)
\* the peer sends a request that is served, one whose handler fails, or one
\* on which dispatch raises
PeerSendFailing(h) ==
    /\ n_frames < MaxFrames
    /\ PeerSendRequest(h, {"ok", "handler_error", "dispatch_raises"}, FALSE)

NextAccept ==
    \/ InitializeRpcService
    \/ \E s \in Services : Stop(s)
    \/ \E t \in Threads : RunCheck(t)
    \/ \E t \in Threads : AcceptClientCreate(t)
    \/ \E t \in Threads : AcceptClientConnected(t)
    \/ \E t \in Threads : AcceptClientFails(t)
    \/ \E t \in Threads : PublishLock(t)
    \/ \E t \in Threads : Publish(t)
    \/ \E t \in Threads : LoopCheck(t)
    \/ \E t \in Threads : ReadRequest(t)
    \/ \E t \in Threads : Dispatch(t)
    \/ \E t \in Threads : WriteResponse(t)
    \/ \E t \in Threads : WriteErrorResponse(t)
    \/ \E t \in Threads : ClearLock(t)
    \/ \E t \in Threads : Clear(t)
    \/ \E t \in Threads : ClosePipe(t)
    \/ \E h \in Handles : PeerConnect(h)
    \/ \E h \in Handles : PeerSendFailing(h)
    \/ \E h \in Handles : PeerSendEmpty(h)
    \/ \E h \in Handles : PeerClose(h)

SpecAccept == InitLoop /\ [][NextAccept]_vars

\* read_message has got past the header block of a frame that announces a
\* body of at least one byte
FrameAnnounced ==
    /\ Contains(headers, HeaderEnd)
    /\ ParseContentLength(headers).kind = "int"
    /\ ParseContentLength(headers).val > 0

\* C32: while the peer has not closed the connection, read_message returns
\* the body of the frame whose header block it has read, however the bytes
\* of the body arrive, and consumes nothing beyond that body.
C32_BodyReadInFull ==
    (read_pc = "done" /\ FrameAnnounced /\ ~writer_closed) =>
        /\ read_result.kind = "str"
        /\ Len(Utf8Encode(read_result.str)) = ParseContentLength(headers).val

(***************************************************************************)
(* SpecCli: the Typer application of the celbridge package, invoked with   *)
(* any short list of arguments, as CliRunner.invoke(app, args) and         *)
(* `python -m celbridge args` do.  The package holds two constructions of  *)
(* the application: the one of __main__.py and the one register_commands   *)
(* builds; both register version_command of commands/version.py.           *)
(***************************************************************************)
Tokens == {"version", "help", "greet", "--format", "text", "json", "invalid"}
Argvs == UNION {[1..n -> Tokens] : n \in 1..MaxArgs}
AppBuilds == {"main", "registered"}

\* app.command("version"), app.command("help") (__main__.py:11-19); the
\* functions of the commands package named *_command (cli.py:23-43,
\* commands/__init__.py:9-10)
AppCommands(app) == {"version", "help"}

\* the options a command declares besides --help: version_command() has no
\* parameter (version.py:11), neither have the help commands an option
DeclaredOptions(app, cmd) == {}

\* the positional arguments a command takes: the help command that
\* register_commands wraps takes an optional command name (cli.py:35)
MaxPositional(app, cmd) == IF app = "registered" /\ cmd = "help" THEN 1 ELSE 0

IsOption(token) == token = "--format"

\* click's exit code for a usage error
UsageErrorCode == 2

\* typer.echo(json.dumps({"version": __version__, "api": "1.0"}))
\* (version.py:13-17)
VersionCommand == RunnerResult(0, "{version, api: 1.0}", "")

\* help_command(app, command) (commands/help.py:7-87): the commands as JSON,
\* with an "error" entry when the command asked for is not among them; the
\* exit code is zero either way.  The placeholder of __main__.py:16-19
\* prints nothing.
HelpCommand(app, rest) ==
    IF app = "main" THEN RunnerResult(0, "", "")
    ELSE IF rest = <<>> \/ rest[1] \in AppCommands(app)
    THEN RunnerResult(0, "{commands}", "")
    ELSE RunnerResult(0, "{commands, error: Command not found}", "")

\* app(args): click resolves the command, parses its options and arguments,
\* and calls it
AppInvoke(app, argv) ==
    LET cmd == argv[1]
        rest == Tail(argv)
    IN  IF IsOption(cmd) THEN RunnerResult(UsageErrorCode, "", "No such option")
        ELSE IF cmd \notin AppCommands(app)
        THEN RunnerResult(UsageErrorCode, "", "No such command")
        ELSE IF \E i \in 1..Len(rest) :
                   IsOption(rest[i]) /\ rest[i] \notin DeclaredOptions(app, cmd)
        THEN RunnerResult(UsageErrorCode, "", "No such option")
        ELSE IF Len(rest) > MaxPositional(app, cmd)
        THEN RunnerResult(UsageErrorCode, "", "Got unexpected extra argument")
        ELSE IF cmd = "version" THEN VersionCommand
        ELSE HelpCommand(app, rest)

\* runner.invoke(app, args) begins
RunnerInvoke ==
    /\ runner_pc = "idle"
    /\ \E app \in AppBuilds, argv \in Argvs :
          /\ runner_app' = app
          /\ runner_args' = argv
    /\ runner_pc' = "invoked"
    /\ runner_result' = NoRunnerResult
    /\ UNCHANGED <<transport_vars, beside_cli>>

\* the application runs and exits
AppExits ==
    /\ runner_pc = "invoked"
    /\ runner_result' = AppInvoke(runner_app, runner_args)
    /\ runner_pc' = "done"
    /\ UNCHANGED <<transport_vars, beside_cli, runner_app, runner_args>>

NextCli ==
    \/ RunnerInvoke
    \/ AppExits

SpecCli == InitLoop /\ [][NextCli]_vars

\* C31: the version command with no option or with --format text exits 0
\* and prints "celbridge <version>"; with --format json it exits 0 and
\* prints the JSON object with version and api; with another format it
\* exits 1 and reports "Unknown format".
C31_VersionFormats ==
    (runner_pc = "done" /\ runner_args[1] = "version") =>
        /\ runner_args \in {<<"version">>, <<"version", "--format", "text">>} =>
              /\ runner_result.exit_code = 0
              /\ runner_result.stdout = "celbridge version"
        /\ runner_args = <<"version", "--format", "json">> =>
              /\ runner_result.exit_code = 0
              /\ runner_result.stdout = "{version, api: 1.0}"
        /\ runner_args = <<"version", "--format", "invalid">> =>
              /\ runner_result.exit_code = 1
              /\ runner_result.stderr = "Unknown format"

(***************************************************************************)
(* SpecHost: calls on a CelbridgeHost object, one after the other: any     *)
(* command, known to the CLI or not, with arguments it accepts or not, and *)
(* help with or without a command name.  The subprocess may fail to start. *)
(***************************************************************************)
\* a call begins; what it prints is looked at from here on
HostBegins(call) ==
    /\ host_pc \in {"idle", "done"}
    /\ n_host_calls < MaxHostCalls
    /\ n_host_calls' = n_host_calls + 1
    /\ host_call' = call
    /\ cli_exit' = NoExit
    /\ cmd_help' = "unset"
    /\ printed' = <<>>

\* cel.<command>(*args, **kwargs): command_wrapper builds cmd_args
\* (celbridge_host.py:344-361)
CommandWrapper ==
    /\ \E name \in CommandNames \ {"help"}, ok \in BOOLEAN :
          HostBegins(CommandCall(name, ok))
    /\ host_pc' = "cli"
    /\ host_return' = "none"
    /\ UNCHANGED <<frame_vars, write_vars, id_vars, tool_vars, init_vars,
                   lifecycle_vars, thread_vars, slot_vars, pipes, call_vars>>

\* the exit of `uv run ... python -m celbridge <args>` (lines 98-113,
\* 144-156): zero only for a registered command with acceptable arguments;
\* not zero for the others, and for any command when uv or the interpreter
\* fails before the command runs
CliExits(call) ==
    (IF call.command \in Registered /\ call.args_ok THEN {ExitOk} ELSE {})
        \cup {ExitNonZero(stderr) : stderr \in Stderrs}

\* a plausible slip: the wrapper lets CelbridgeCommandError through
CommandErrorRaised(stderr) ==
    [pc |-> "done", printed |-> <<>>, return |-> "CelbridgeCommandError"]

\* except CelbridgeCommandError as e: print(e)  (lines 367-369); e.command
\* is the command name, so line 373 is next
CommandErrorCaught(stderr) ==
    [pc |-> "help", printed |-> <<ErrorMessage(CleanErrorMessage(stderr))>>,
     return |-> "none"]

\* output = _run_cli_command(cmd_args); return json.loads(output)
\* (lines 363-366, 107-124, 150-167): the subprocess ends with exit code
\* zero, or not zero (CalledProcessError, raised as CelbridgeCommandError),
\* or cannot be started (FileNotFoundError, raised as RuntimeError, or an
\* environment variable that is missing)
RunCliCommand ==
    /\ host_pc = "cli"
    /\ \E exit \in CliExits(host_call) \cup {NotStarted} :
          /\ cli_exit' = exit
          /\ IF exit.code = "ok"
             THEN /\ host_pc' = "done"
                  /\ host_return' = "dict"
                  /\ UNCHANGED printed
             ELSE IF exit.code = "not started"
             THEN /\ host_pc' = "done"
                  /\ host_return' = "RuntimeError"
                  /\ UNCHANGED printed
             ELSE /\ host_pc' = CommandErrorCaught(exit.stderr).pc
                  /\ printed' = CommandErrorCaught(exit.stderr).printed
                  /\ host_return' = CommandErrorCaught(exit.stderr).return
    /\ UNCHANGED <<frame_vars, write_vars, id_vars, tool_vars, init_vars,
                   lifecycle_vars, thread_vars, slot_vars, pipes, call_vars,
                   host_call, cmd_help, n_host_calls>>

\* _get_command_help(command_name) (lines 194-217): the entry of the
\* command in the output of the help command, or None when the command is
\* not listed or anything goes wrong
GetCommandHelpResults(name) ==
    (IF name \in Registered THEN {"found"} ELSE {"None"}) \cup {"None"}

\* cmd_help = _get_command_help(e.command); if cmd_help:
\* print(_format_command_help(cmd_help)); return None  (lines 372-377)
ShowCommandHelp ==
    /\ host_pc = "help"
    /\ \E found \in GetCommandHelpResults(host_call.command) :
          /\ cmd_help' = found
          /\ printed' = IF found = "found"
                        THEN Append(printed, UsageAndDescription(host_call.command))
                        ELSE printed
    /\ host_return' = "None"
    /\ host_pc' = "done"
    /\ UNCHANGED <<frame_vars, write_vars, id_vars, tool_vars, init_vars,
                   lifecycle_vars, thread_vars, slot_vars, pipes, call_vars,
                   host_call, cli_exit, n_host_calls>>

\* cel.help(...): def help(self) takes no argument besides self (line 277),
\* so a call with a command name raises TypeError before the body runs
Help ==
    /\ \E name \in CommandNames \cup {NoName} :
          /\ HostBegins(HelpCall(name))
          /\ host_pc' = IF name = NoName THEN "help_all" ELSE "done"
    /\ host_return' = IF host_pc' = "done" THEN "TypeError" ELSE "none"
    /\ UNCHANGED <<frame_vars, write_vars, id_vars, tool_vars, init_vars,
                   lifecycle_vars, thread_vars, slot_vars, pipes, call_vars>>

\* the body of help (lines 285-320): the help command is run and what it
\* lists is printed; its failure is not caught
HelpAll ==
    /\ host_pc = "help_all"
    /\ \E exit \in {ExitOk, NotStarted} \cup {ExitNonZero(s) : s \in Stderrs} :
          /\ cli_exit' = exit
          /\ printed' = IF exit.code = "ok" THEN <<AvailableCommands>> ELSE printed
          /\ host_return' = CASE exit.code = "ok" -> "None"
                               [] exit.code = "nonzero" -> "CelbridgeCommandError"
                               [] exit.code = "not started" -> "RuntimeError"
    /\ host_pc' = "done"
    /\ UNCHANGED <<frame_vars, write_vars, id_vars, tool_vars, init_vars,
                   lifecycle_vars, thread_vars, slot_vars, pipes, call_vars,
                   host_call, cmd_help, n_host_calls>>

NextHost ==
    \/ CommandWrapper
    \/ RunCliCommand
    \/ ShowCommandHelp
    \/ Help
    \/ HelpAll

SpecHost == InitLoop /\ [][NextHost]_vars

Printed == {printed[i] : i \in 1..Len(printed)}

\* cel.<command>(...) was called and its subprocess ended with an exit code
\* that is not zero
CommandFailed == host_call.method = "command" /\ cli_exit.code = "nonzero"

Raised == host_return \notin {"none", "None", "dict"}

C30_HelpAcceptsCommandName ==
    (host_pc = "done" /\ host_call.method = "help" /\ host_call.command # NoName) =>
        IF host_call.command \in Registered
        THEN UsageAndDescription(host_call.command) \in Printed
        ELSE NotFound(host_call.command) \in Printed

(***************************************************************************)
(* SpecShutdown: a service that is initialized, stopped and shut down any  *)
(* number of times, its loop thread, peers that connect and leave, and a   *)
(* thread that closes the published connection, once or again              *)
(***************************************************************************)
NextShutdown ==
    \/ InitializeRpcService
    \/ ShutdownRpcService
    \/ \E s \in Services : Start(s)
    \/ \E s \in Services : Stop(s)
    \/ \E t \in Threads : RunCheck(t)
    \/ \E t \in Threads : CreateNamedPipe(t)
    \/ \E t \in Threads : ConnectNamedPipe(t)
    \/ \E t \in Threads : PublishLock(t)
    \/ \E t \in Threads : Publish(t)
    \/ \E t \in Threads : LoopCheck(t)
    \/ \E t \in Threads : ReadRequest(t)
    \/ \E t \in Threads : ClearLock(t)
    \/ \E t \in Threads : Clear(t)
    \/ \E t \in Threads : ClosePipe(t)
    \/ \E h \in Handles : PeerConnect(h)
    \/ \E h \in Handles : PeerClose(h)
    \/ \E h \in Handles : ClosePipeCall(h)

SpecShutdown == InitLoop /\ [][NextShutdown]_vars

(***************************************************************************)
(* SpecLifecycle: services initialized, shut down, started and stopped in  *)
(* any order, so that several loop threads exist at once; no outbound call *)
(***************************************************************************)
NextLifecycle ==
    \/ InitializeRpcService
    \/ ShutdownRpcService
    \/ \E s \in Services : Start(s)
    \/ \E s \in Services : Stop(s)
    \/ \E t \in Threads : RunCheck(t)
    \/ \E t \in Threads : CreateNamedPipe(t)
    \/ \E t \in Threads : ConnectNamedPipe(t)
    \/ \E t \in Threads : ConnectFails(t)
    \/ \E t \in Threads : PublishLock(t)
    \/ \E t \in Threads : Publish(t)
    \/ \E t \in Threads : LoopCheck(t)
    \/ \E t \in Threads : ReadRequest(t)
    \/ \E t \in Threads : Dispatch(t)
    \/ \E t \in Threads : WriteResponse(t)
    \/ \E t \in Threads : WriteErrorResponse(t)
    \/ \E t \in Threads : ClearLock(t)
    \/ \E t \in Threads : Clear(t)
    \/ \E t \in Threads : ClosePipe(t)
    \/ \E h \in Handles : PeerConnect(h)
    \/ \E h \in Handles : PeerSendFew(h)
    \/ \E h \in Handles : PeerClose(h)

SpecLifecycle == Init /\ [][NextLifecycle]_vars

(***************************************************************************)
(* Properties of the request loop (SpecLoop)                               *)
(***************************************************************************)
\* the bodies the loop thread wrote on pipe h, in order
LoopOut(h) == SelectSeq(pipes[h].out, LAMBDA e : e.by = "loop")

\* what the loop hands to write_message for a request it read
Answer(req) == IF DispatchRaises(req) THEN error_response ELSE dispatch(req)

InRequestStep(t) == pc[t] \in {"dispatch", "write", "write_error"}

\* C2: within one connection the loop handles one request at a time, in
\* the order the frames arrived, and the k-th frame the loop wrote is the
\* answer to the k-th request it read.
C2_InOrder ==
    \A h \in Handles :
        LET w == LoopOut(h)
            r == pipes[h].reads
        IN  /\ Cardinality({t \in Threads : handler[t] = h /\ InRequestStep(t)}) <= 1
            /\ \A k \in 1..(Len(r) - 1) : r[k].seq < r[k + 1].seq
            /\ Len(w) <= Len(r)
            /\ (\E t \in Threads : handler[t] = h /\ InRequestStep(t))
                   => Len(w) < Len(r)
            /\ \A k \in 1..Len(w) : w[k].body = Answer(r[k])

C2_Witness ==
    \E h \in Handles :
        /\ Len(LoopOut(h)) = 2
        /\ LoopOut(h)[1].body # LoopOut(h)[2].body
        /\ pipes[h].reads[1].id # pipes[h].reads[2].id

\* C3: every request with an id that the loop read gets a response frame
\* carrying that id, on the normal path and on the path where dispatch
\* raises.
C3_CorrelatedResponse ==
    \A h \in Handles :
        \A k \in 1..Len(LoopOut(h)) :
            pipes[h].reads[k].id # NoId
                => LoopOut(h)[k].body.id = pipes[h].reads[k].id

\* a request for which dispatch produces no response
IsNotification(req) == req.id = NoId /\ ~DispatchRaises(req)

\* C4: the loop writes no frame for a notification: none of the frames it
\* wrote stands for a notification it read.
C4_NoFrameForNotification ==
    \A h \in Handles :
        \A k \in 1..Len(LoopOut(h)) : ~IsNotification(pipes[h].reads[k])

\* the loop thread t takes a step
Steps(t) == pc'[t] # pc[t]

HandlerFailed(req) == req.kind = "handler_error"

C10_DispatchFailureContained ==
    /\ [](\A h \in Handles :
            \A k \in 1..Len(LoopOut(h)) :
                DispatchRaises(pipes[h].reads[k])
                    => /\ LoopOut(h)[k].body.type = "error"
                       /\ LoopOut(h)[k].body.code = InternalError)
    /\ [][\A t \in Threads :
            /\ (pc[t] = "dispatch" /\ DispatchRaises(request_str[t]) /\ Steps(t))
                   => /\ pc'[t] = "write_error"
                      /\ pipes' = pipes
                      /\ pipe_handler' = pipe_handler
            /\ (pc[t] = "write_error" /\ Steps(t))
                   => /\ pc'[t] = "loop"
                      /\ handler'[t] = handler[t]
                      /\ pipes'[handler[t]].state = pipes[handler[t]].state
                      /\ pipe_handler' = pipe_handler
                      /\ CanWrite(handler[t])
                            => Len(LoopOut(handler[t]))' = Len(LoopOut(handler[t])) + 1
            /\ (pc[t] = "loop" /\ running[thread_svc[t]] /\ Steps(t))
                   => pc'[t] = "read"]_vars

C10_Witness ==
    \E h \in Handles :
        /\ Len(pipes[h].reads) = 2
        /\ DispatchRaises(pipes[h].reads[1])
        /\ Len(LoopOut(h)) = 2
        /\ pipes[h].state = "connected"
        /\ pipe_handler = h

(***************************************************************************)
(* Properties of the service (Spec)                                        *)
(***************************************************************************)
\* the connections that were accepted and that the service has not closed
OpenConnections == {h \in Handles : pipes[h].state = "connected"}

\* C5: at most one accepted peer connection is open at any moment.
C5_OneConnection == Cardinality(OpenConnections) <= 1

C5_Witness ==
    /\ n_threads = 2
    /\ pipes[2].state = "connected"
    /\ \E t \in Threads : pc[t] = "create" /\ running[thread_svc[t]]

InHandleClient(t) ==
    pc[t] \in {"loop", "read", "dispatch", "write", "write_error", "clear",
               "clear_locked"}

\* C6: the slot is empty or names the one connection whose request loop is
\* under way, and that connection is not closed: the slot is cleared before
\* the close on every way out of the loop.
C6_Slot ==
    /\ pipe_handler # NoHandle
           => /\ pipes[pipe_handler].state = "connected"
              /\ \E t \in Threads : handler[t] = pipe_handler /\ InHandleClient(t)
    /\ \A t \in Threads : pc[t] = "close" => pipe_handler = NoHandle

C6_Witness ==
    \E t \in Threads :
        /\ pc[t] = "close"
        /\ pipes[handler[t]].state = "connected"
        /\ pipes[handler[t]].reads # <<>>
        /\ pipe_handler = NoHandle

\* C7: a call that finds the slot empty ends at once with RpcError and
\* touches no pipe, whatever the state of the service.
C7_FailsFastWithoutPeer ==
    [][(call_pc = "locked" /\ pipe_handler = NoHandle /\ n_calls' # n_calls)
          => /\ call_pc' = "idle"
             /\ call_result' = "RpcError_NoConnection"
             /\ pipes' = pipes]_vars

C7_Witness ==
    /\ call_result = "RpcError_NoConnection"
    /\ \E t \in Threads : pc[t] = "connect" /\ running[thread_svc[t]]

\* C8: the connection-slot lock is held only inside the two with blocks
\* of _handle_client and inside get_pipe_handler, never by a thread that
\* is in accept, read_message or write_message.
C8_LockNotHeldAcrossIO ==
    /\ \A t \in Threads :
           pipe_handler_lock = LoopThread(t)
               => pc[t] \in {"publish_locked", "clear_locked"}
    /\ pipe_handler_lock = Caller => call_pc = "locked"

C8_Witness ==
    /\ pipe_handler_lock = Caller
    /\ \E t \in Threads : pc[t] = "read" /\ pipes[handler[t]].inq = <<>>

(***************************************************************************)
(* More properties of the request loop (SpecLoop)                          *)
(***************************************************************************)
UnknownMethod(req) == req.kind = "no_method" /\ req.id # NoId

\* C11: a request with an id that names a method that is not registered
\* is answered by one frame, an error response of code -32601 with the
\* id of the request; writing it to the connected peer keeps the
\* connection (open and in the slot) and the loop goes back to its while,
\* so that the request read next is answered as dispatch answers it.
C11_UnknownMethodAnswered ==
    /\ [](\A h \in Handles :
            LET w == LoopOut(h)
                r == pipes[h].reads
            IN  /\ Len(w) <= Len(r)
                /\ \A k \in 1..Len(w) :
                       /\ UnknownMethod(r[k])
                              => w[k].body = ErrorResponse(MethodNotFound, r[k].id)
                       /\ (k > 1 /\ UnknownMethod(r[k - 1]))
                              => w[k].body = Answer(r[k]))
    /\ [][\A t \in Threads :
            (/\ pc[t] = "write"
             /\ UnknownMethod(request_str[t])
             /\ CanWrite(handler[t])
             /\ Steps(t))
                => /\ pc'[t] = "loop"
                   /\ handler'[t] = handler[t]
                   /\ pipes'[handler[t]].state = "connected"
                   /\ pipe_handler' = pipe_handler
                   /\ Len(LoopOut(handler[t]))' = Len(LoopOut(handler[t])) + 1]_vars

C11_Witness ==
    \E h \in Handles :
        /\ Len(LoopOut(h)) = 2
        /\ UnknownMethod(pipes[h].reads[1])
        /\ pipes[h].reads[2].kind = "ok"
        /\ pipes[h].reads[2].id # NoId
        /\ pipes[h].state = "connected"

\* a body with a "result" member, with an "error" member
HasResult(body) == body.type = "result"
HasError(body) == body.type = "error"

\* C12: a request with an id for a registered method whose handler
\* returns Success is answered by a response that holds the handler's
\* result and the id of the request, with a "result" member and no
\* "error" member.
C12_SuccessAnswered ==
    \A h \in Handles :
        LET w == LoopOut(h)
            r == pipes[h].reads
        IN  \A k \in 1..Len(w) :
                (Succeeds(r[k]) /\ r[k].id # NoId)
                    => /\ HasResult(w[k].body)
                       /\ ~HasError(w[k].body)
                       /\ w[k].body.result = HandlerResult(r[k])
                       /\ w[k].body.id = r[k].id

C12_Witness ==
    \E h \in Handles :
        /\ Len(LoopOut(h)) = 2
        /\ pipes[h].reads[1] = Request(1, "ok", 1)
        /\ pipes[h].reads[2] = Request(2, "ok_info", 2)

(***************************************************************************)
(* Properties of successive connections (SpecServe)                        *)
(***************************************************************************)
\* the service of loop thread t has been stopped
Stopped(t) == thread_svc[t] # 0 /\ ~running[thread_svc[t]]

\* C13: once a connection has ended (the peer is gone, read_message gave
\* nothing, or the response could not be written) the loop clears the
\* slot, closes the connection and, unless the service was stopped, waits
\* in a new accept; a peer that connects then is put in the slot, and the
\* request it sends is answered unless it leaves or the service is stopped.
C13_ServesNextPeer ==
    \A t \in Threads, h \in Handles :
        /\ (pc[t] = "clear" /\ handler[t] = h)
              ~> (/\ pipes[h].state = "closed"
                  /\ pipe_handler # h
                  /\ \/ pc[t] = "connect"
                     \/ Stopped(t)
                     \/ n_conns = MaxConns)
        /\ (pc[t] = "connect" /\ handler[t] = h /\ pipes[h].state = "connected")
              ~> (pipe_handler = h)
        /\ (/\ handler[t] = h
            /\ pipes[h].inq # <<>>
            /\ Head(pipes[h].inq).seq = 1
            /\ Head(pipes[h].inq).kind # "empty")
              ~> (\/ Len(LoopOut(h)) >= 1
                  \/ ~pipes[h].peer_open
                  \/ Stopped(t))

C13_Witness ==
    /\ n_services = 1
    /\ running[1]
    /\ pipes[1].state = "closed"
    /\ pipes[2].state = "connected"
    /\ pipes[2].peer_open
    /\ Len(LoopOut(2)) >= 1

(***************************************************************************)
(* Properties of outbound calls (SpecOutbound)                             *)
(***************************************************************************)
\* the call's read_message gets a frame: its handle is open and a frame
\* is waiting on the pipe
CallGetsFrame ==
    /\ pipes[call_handler].state = "connected"
    /\ pipes[call_handler].inq # <<>>
\* that frame
CallFrame == Head(pipes[call_handler].inq)

\* the call's write_message and its read_message complete
CallWrites == call_pc = "write" /\ call_pc' # "write"
CallReads == call_pc = "read" /\ call_pc' # "read"

\* C14: a call that found a connection in the slot returns the result
\* payload when the frame it reads is a success response, raises RpcError
\* with the remote code when it is an error response, and raises RpcError
\* when write_message returns False or read_message returns no message.
C14_CallOutcomes ==
    [][/\ CallWrites
           => IF CanWrite(call_handler)
              THEN call_pc' = "read" /\ call_result' = "none"
              ELSE call_pc' = "idle" /\ call_result' = "RpcError_Send"
       /\ CallReads
           => /\ call_pc' = "idle"
              /\ (CallGetsFrame /\ CallFrame.kind = "response_ok")
                     => call_result' = "return" /\ call_value' = PeerResult
              /\ (CallGetsFrame /\ CallFrame.kind = "response_error")
                     => call_result' = "RpcError_Remote" /\ call_value' = PeerErrorCode
              /\ (~CallGetsFrame \/ CallFrame.kind = "empty")
                     => call_result' = "RpcError_Receive" /\ call_value' = NoValue]_vars

C14_Witness ==
    /\ call_pc = "idle"
    /\ call_result = "return"
    /\ call_value = PeerResult
    /\ \E h \in Handles : pipes[h].state = "connected" /\ pipe_handler = h

\* the ways call_csharp_method raises RpcError (lines 204, 212, 217, 226, 228)
RpcErrors ==
    {"RpcError_NoConnection", "RpcError_Send", "RpcError_Receive",
     "RpcError_Remote", "RpcError_Unexpected"}

\* C15: an outbound call ends by returning a result or by raising
\* RpcError, and by no other exception, whatever frame it read.
C15_OnlyRpcError == call_result \in {"none", "return"} \cup RpcErrors

\* the frame waiting for the call was sent after the call wrote its request
ArrivedAfterRequest == CallFrame.seq > call_sent

\* the frame at the front of the pipe of the call is taken off it
FrameTaken ==
    pipes'[call_handler].inq = Tail(pipes[call_handler].inq)

ThreadsOf(s) == {t \in Threads : thread_svc[t] = s}

\* C17: start() on a service whose running flag is set changes nothing:
\* no thread is created for it, its thread goes on as before and the flag
\* stays set; no step at all creates a thread for a running service.
C17_StartTwiceNoOp ==
    [][\A s \in Services :
          /\ (running[s] /\ Start(s)) => UNCHANGED vars
          /\ running[s] => ThreadsOf(s)' = ThreadsOf(s)]_vars

C17_Witness ==
    \E s \in Services :
        /\ running[s]
        /\ thread[s] # 0
        /\ pc[thread[s]] = "connect"
        /\ ENABLED Start(s)

\* the threads that are executing the loop of _run: started, and not at a
\* `while self.running` that is about to end the loop
LoopThreads ==
    {t \in Threads : /\ pc[t] \notin {"unborn", "exit"}
                     /\ pc[t] = "run" => running[thread_svc[t]]}

\* C18: at any moment at most one thread is executing the accept/dispatch
\* loop.
C18_OneLoopThread == Cardinality(LoopThreads) <= 1

(***************************************************************************)
(* C19: initialize_rpc_service called while a service instance exists      *)
(* returns False, creates no service, starts no thread and leaves the      *)
(* instance and its running flag as they were; of the threads that call it *)
(* at the same time, exactly one creates the service.                      *)
(***************************************************************************)
Created == {c \in InitCallers : init_result[c] = "True"}

Rejected == {c \in InitCallers : init_result[c] = "False"}

InitReturns(c) == init_pc[c] = "locked" /\ init_pc'[c] = "done"

C19_SecondInitializeRejected ==
    /\ [](/\ n_services = Cardinality(Created)
          /\ Cardinality(Created) <= 1
          /\ (\A c \in InitCallers : init_pc[c] = "done") /\ ~NoPipeName
                 => Cardinality(Created) = 1
          /\ Cardinality({c \in InitCallers : init_pc[c] = "locked"}) <= 1)
    /\ [][\A c \in InitCallers :
            InitReturns(c) =>
                IF rpc_service # NoService
                THEN /\ init_result'[c] = "False"
                     /\ UNCHANGED <<rpc_service, n_services, running, n_threads,
                                    thread, thread_svc, pc>>
                ELSE /\ init_result'[c] = "True"
                     /\ n_services' = n_services + 1
                     /\ rpc_service' = n_services']_vars

C19_Witness ==
    /\ \A c \in InitCallers : init_pc[c] = "done"
    /\ Created # {}
    /\ Rejected # {}
    /\ rpc_service # NoService
    /\ ~running[rpc_service]
    /\ n_threads = 1

(***************************************************************************)
(* C20: with CELBRIDGE_RPC_PIPE absent or empty, initialize_rpc_service    *)
(* returns False, creates no service and no thread, and the service        *)
(* reference and the connection slot stay empty.                           *)
(***************************************************************************)
InitLeavesEnv(c) == init_pc[c] = "idle" /\ init_pc'[c] # "idle"

C20_NoPipeNameDisables ==
    /\ [](env_pipe \in {"absent", "empty"} =>
              /\ rpc_service = NoService
              /\ pipe_handler = NoHandle
              /\ n_services = 0
              /\ n_threads = 0
              /\ service_lock = Unlocked
              /\ \A c \in InitCallers : init_result[c] # "True")
    /\ [][\A c \in InitCallers :
            InitLeavesEnv(c) /\ env_pipe \in {"absent", "empty"} =>
                /\ init_pc'[c] = "done"
                /\ init_result'[c] = "False"
                /\ UNCHANGED <<lifecycle_vars, thread_vars, slot_vars, pipes,
                               service_lock>>]_vars

C20_Witness ==
    /\ env_pipe = "empty"
    /\ \A c \in InitCallers : init_pc[c] = "done" /\ init_result[c] = "False"
    /\ rpc_service = NoService

(***************************************************************************)
(* C21: stop() and shutdown_rpc_service() return in every state, whatever  *)
(* the loop thread is doing (blocked in accept or in read_message too),    *)
(* they leave the thread where it is, and every thread alive is a daemon,  *)
(* so the process can exit.                                                *)
(***************************************************************************)
BlockedInAccept(t) == pc[t] = "connect" /\ pipes[handler[t]].state = "listening"

BlockedInRead(t) == pc[t] = "read" /\ ~CanRead(handler[t])

Blocked(t) == BlockedInAccept(t) \/ BlockedInRead(t)

ProcessCanExit == \A t \in Threads : Alive(t) => IsDaemon(t)

FlagCleared(s) == running[s] /\ ~running'[s]

C21_StopNeverWaits ==
    /\ [](\A s \in 1..n_services : ENABLED Stop(s))
    /\ [](service_lock = Unlocked => ENABLED ShutdownRpcService)
    /\ []ProcessCanExit
    /\ [][\A s \in Services :
            FlagCleared(s) => UNCHANGED <<thread, thread_vars, slot_vars, pipes>>]_vars

C21_Witness ==
    /\ rpc_service = NoService
    /\ n_services = 1
    /\ \E t \in Threads : BlockedInRead(t) /\ Stopped(t)

(***************************************************************************)
(* C22: a second stop() on a service, a second shutdown_rpc_service() and  *)
(* a second close_pipe on a connection each return, and leave every        *)
(* variable as the first call left it.                                     *)
(***************************************************************************)
\* the loop thread is about to close a connection that is closed already
SecondClose(t) ==
    /\ pc[t] = "close"
    /\ pipes[handler[t]].state = "closed"

C22_ShutdownIdempotent ==
    /\ [](\A s \in 1..n_services : ~running[s] => ENABLED Stop(s))
    /\ [](rpc_service = NoService /\ service_lock = Unlocked
              => ENABLED ShutdownRpcService)
    /\ [](\A h \in Handles : pipes[h].state = "closed" => ENABLED ClosePipeCall(h))
    /\ [][/\ \A s \in Services : (Stop(s) /\ ~running[s]) => UNCHANGED vars
          /\ (ShutdownRpcService /\ rpc_service = NoService) => UNCHANGED vars
          /\ \A h \in Handles :
                (ClosePipeCall(h) /\ pipes[h].state = "closed") => UNCHANGED vars
          /\ \A t \in Threads :
                (SecondClose(t) /\ ClosePipe(t)) => UNCHANGED <<pipes, slot_vars>>]_vars

C22_Witness ==
    /\ rpc_service = NoService
    /\ n_services = 1
    /\ ~running[1]
    /\ \E t \in Threads : SecondClose(t)

(***************************************************************************)
(* Properties of stop() on the loop (SpecServe: no start after a stop)     *)
(***************************************************************************)
\* loop thread t begins an accept: accept_client creates the pipe instance
NewAccept(t) == pc[t] = "create" /\ pc'[t] = "connect"

\* C23 as stated: once stop() has returned the loop begins no accept.
C23_NoNewAccept ==
    [][\A t \in Threads : Stopped(t) => ~NewAccept(t)]_vars

\* C23: stop() changes nothing but the flag, and the flag is looked at only
\* by the two while tests.  A stopped loop leaves the test of line 63 for
\* the exit and the test of line 87 for the finally block; it begins an
\* accept only if it had passed the test of line 63 before stop(); what is
\* blocked stays blocked until the peer acts; and each time it is not
\* blocked it goes on until it has cleared the slot, closed its connection
\* and left _run.
C23_StopTakesEffectAtChecks ==
    /\ [][\A t \in Threads :
            /\ (\E s \in Services : FlagCleared(s)) => UNCHANGED <<thread_vars, pipes>>
            /\ Stopped(t) /\ pc[t] = "run" => pc'[t] \in {"run", "exit"}
            /\ Stopped(t) /\ pc[t] = "loop" => pc'[t] \in {"loop", "clear"}
            /\ Blocked(t) => pc'[t] = pc[t]]_vars
    /\ [](\A t \in Threads :
            pc[t] = "exit" =>
                /\ handler[t] = NoHandle
                /\ pipe_handler = NoHandle
                /\ OpenInstances = {})
    /\ \A t \in Threads :
          Stopped(t) ~> (pc[t] = "exit" \/ Blocked(t) \/ n_conns = MaxConns)

C23_Witness ==
    \E t \in Threads :
        /\ pc[t] = "exit"
        /\ Stopped(t)
        /\ pipes[1].state = "closed"
        /\ pipes[1].sent >= 1
        /\ pipes[2].state = "unused"

(***************************************************************************)
(* Properties of framing errors on the loop's connection (SpecWire)        *)
(***************************************************************************)
\* read_message holds a complete header block without a Content-Length line
NoContentLength ==
    /\ read_pc = "headers"
    /\ Contains(headers, HeaderEnd)
    /\ ParseContentLength(headers).kind = "None"

ReadFailed == read_pc = "done" /\ read_result = NoMessage

ConnectionEnded ==
    /\ pipes[WireHandle].state = "closed"
    /\ pipe_handler = NoHandle
    /\ read_pc = "idle"

\* C24: on a header block that ends with the blank line and has no
\* Content-Length line, read_message returns None without taking a byte
\* more from the pipe; the loop that gets None leaves for its finally
\* block, and the slot is cleared and the connection closed; read_message
\* runs only on a connection that is open.
C24_MissingLengthEndsConnection ==
    /\ [][NoContentLength /\ read_pc' # "headers" =>
              /\ read_pc' = "done"
              /\ read_result' = NoMessage
              /\ pipe_bytes' = pipe_bytes]_vars
    /\ [][\A t \in Threads :
            ReadFailed /\ pc[t] = "read" /\ pc'[t] # "read" => pc'[t] = "clear"]_vars
    /\ [](read_pc # "idle" =>
            /\ pipes[WireHandle].state = "connected"
            /\ \E t \in Threads : pc[t] = "read" /\ handler[t] = WireHandle)
    /\ NoContentLength ~> ConnectionEnded

C24_Witness ==
    /\ ConnectionEnded
    /\ headers = NoLengthHeaders
    /\ read_result = NoMessage
    /\ pipe_bytes # <<>>
    /\ pipes[WireHandle].sent = MaxFrames

\* read_message has parsed Content-Length n > 0, the peer has left, and
\* fewer than n bytes of body are on the pipe
BodyCutShort ==
    /\ read_pc = "body"
    /\ content_length > 0
    /\ writer_closed
    /\ Len(pipe_bytes) < content_length

\* the loop thread waits in a new accept
BackInAccept ==
    \E t \in Threads : pc[t] = "connect" /\ handler[t] # WireHandle

\* C25: when the peer leaves after a complete header with Content-Length
\* n > 0 and fewer than n bytes of body, the read of the body is not
\* blocked, read_message returns None, and the loop ends the connection
\* and waits in a new accept.
C25_TruncatedBodyEndsConnection ==
    /\ [](BodyCutShort => ENABLED ReadBody)
    /\ [][BodyCutShort /\ read_pc' # "body" => read_pc' = "done" /\ read_result' = NoMessage]_vars
    /\ BodyCutShort ~> ReadFailed
    /\ BodyCutShort ~> (ConnectionEnded /\ BackInAccept)

C25_Witness ==
    /\ ConnectionEnded
    /\ BackInAccept
    /\ IsPrefix(FrameHeaders(2), headers)
    /\ content_length = 2
    /\ read_result = NoMessage
    /\ pipes[WireHandle].sent = MaxFrames

\* C26: what read_message returns on a framing error (no Content-Length
\* line, or a body cut short after Content-Length was parsed) differs from
\* what it returns when the peer has closed the pipe between two frames.
C26_FramingErrorDistinctFromClose ==
    [][(NoContentLength \/ BodyCutShort) /\ read_pc' = "done"
          => read_result' # CleanCloseResult]_vars

(***************************************************************************)
(* Properties of concurrent writers (SpecWrite)                            *)
(***************************************************************************)
FrameOf(w) == FullMessage(write_msg[w].message)

\* C27: when the loop thread and an outbound caller are both writing on
\* the connection, the bytes on the pipe are at every moment the beginning
\* of one writer's whole frame followed by the other's whole frame, and
\* are exactly that once both write_message calls have returned; a frame
\* is on the pipe whole or not at all.
C27_FramesNotInterleaved ==
    /\ \A w \in Writers :
          write_msg[w].state = "done" <=> write_calls[w] = <<>> /\ write_msg[w] # NotWriting
    /\ (\A w \in Writers : write_msg[w] # NotWriting) =>
          /\ \/ IsPrefix(wire_out, FrameOf("loop") \o FrameOf("call"))
             \/ IsPrefix(wire_out, FrameOf("call") \o FrameOf("loop"))
          /\ (\A w \in Writers : write_msg[w].state = "done") =>
                Len(wire_out) = Len(FrameOf("loop")) + Len(FrameOf("call"))
    /\ \E done \in SUBSET {w \in Writers : write_msg[w].state = "done"} :
          \/ done = {} /\ wire_out = <<>>
          \/ \E w \in done : done = {w} /\ wire_out = FrameOf(w)
          \/ done = Writers /\ \E w, v \in done :
                w # v /\ wire_out = FrameOf(w) \o FrameOf(v)

C27_Witness ==
    /\ \A w \in Writers : write_msg[w].state = "done"
    /\ write_msg["loop"].message = <<"euro">>
    /\ write_msg["call"].message = <<"a", "LF">>
    /\ wire_out = FrameOf("call") \o FrameOf("loop")

(***************************************************************************)
(* Properties of outbound request ids (SpecIds)                            *)
(***************************************************************************)
\* the ids of the requests built and not yet written
HeldIds == {request_id[c] : c \in {d \in IdCallers : request_id[d] # NoId}}

\* C28: the ids of the requests written on one connection are pairwise
\* distinct, whichever threads built them and in whatever order they were
\* written; so are the ids of requests built and not yet written, and
\* these differ from every id on the connection.
C28_RequestIdsDistinct ==
    /\ \A i, j \in 1..Len(sent_ids) : i # j => sent_ids[i] # sent_ids[j]
    /\ \A c, d \in IdCallers :
          c # d /\ request_id[c] # NoId => request_id[c] # request_id[d]
    /\ \A i \in 1..Len(sent_ids) : sent_ids[i] \notin HeldIds

C28_Witness ==
    /\ Len(sent_ids) = 3
    /\ sent_ids[1] > sent_ids[2]
    /\ request_id[1] # NoId

\* the positions of a thread inside _run and _handle_client
LoopPositions ==
    {"unborn", "run", "create", "connect", "publish", "publish_locked", "loop",
     "read", "dispatch", "write", "write_error", "clear", "clear_locked", "close",
     "exit"}

\* the thread leaves _run in this step
LeavesRun(t) == pc[t] # "exit" /\ pc'[t] = "exit"

\* C33: a loop thread leaves _run only through the test of `while
\* self.running`, finding the flag false: whatever the peer sends, and
\* whichever of accept, read, dispatch, handler, write and close fails, no
\* step ends the thread while the flag of its service is true.
C33_LoopSurvivesFailures ==
    /\ [](\A t \in Threads : pc[t] \in LoopPositions)
    /\ [][\A t \in Threads :
            LeavesRun(t) => (pc[t] = "run" /\ ~running[thread_svc[t]])]_vars

\* a running service whose thread has served a connection that it closed,
\* has had an accept fail since, and is still in its loop
C33_Witness ==
    \E t \in Threads :
        /\ Alive(t)
        /\ running[thread_svc[t]]
        /\ accept_logged[t] = "error"
        /\ pipes[1].state = "closed" /\ pipes[1].sent >= 1
        /\ pipes[2].state = "closed"

\* accept_client returns None to thread t in this step
AcceptReturnsNone(t) == pc[t] \in {"create", "connect"} /\ pc'[t] = "run"

\* thread t holds a connection that accept_client returned after stop()
LateConnection(t) == accept_stopped[t] /\ handler[t] # NoHandle

C37_AcceptFailureReleasesAndLogs ==
    [][\A t \in Threads :
         AcceptReturnsNone(t) =>
            /\ handler'[t] = NoHandle
            /\ handler[t] # NoHandle => pipes'[handler[t]].state = "closed"
            /\ OpenInstances' \subseteq OpenInstances \ {handler[t]}
            /\ accept_logged'[t] = "error" <=> running[thread_svc[t]]
            /\ accept_logged'[t] = "nothing" <=> ~running[thread_svc[t]]]_vars

\* an accept that failed after stop() and logged nothing, its handle closed
C37_Witness ==
    \E t \in Threads :
        /\ pc[t] = "run"
        /\ Stopped(t)
        /\ accept_logged[t] = "nothing"
        /\ handler[t] = NoHandle
        /\ pipes[1].state = "closed" /\ pipes[1].sent = 0

\* the inbound loop sits in read_message on the connection of the call
LoopBlockedOnCallConnection ==
    \E t \in Threads : pc[t] = "read" /\ handler[t] = call_handler

\* C34: while an outbound call waits for its response and the inbound loop
\* is blocked in read_message on the same connection, the response the
\* peer sends is taken off the pipe by the call, never by the loop, which
\* therefore never dispatches it as a request.
C34_ResponseReachesCaller ==
    [][(/\ call_pc = "read"
        /\ LoopBlockedOnCallConnection
        /\ CallGetsFrame
        /\ CallFrame.kind \in ResponseKinds
        /\ ArrivedAfterRequest
        /\ FrameTaken)
           => /\ CallReads
              /\ pipes'[call_handler].reads = pipes[call_handler].reads
              /\ \A t \in Threads : pc'[t] # "dispatch"]_vars

\* C35: from the moment call_csharp_method has read the slot until its
\* write and read are over, the connection it obtained has not been closed
\* by the inbound loop, so the call never writes to or reads from a closed
\* connection.
C35_CallConnectionStaysOpen ==
    call_pc \in {"write", "read"} => pipes[call_handler].state # "closed"

(***************************************************************************)
(* SpecVersion: the get_version RPC method, called again and again; the    *)
(* CLI subprocess behind cel.version() ends with exit code zero, or not    *)
(* zero, or cannot be started                                              *)
(***************************************************************************)
\* cel = CelbridgeHost(); result = cel.version()  (rpc_handler.py:17-19):
\* command_wrapper for "version" with no arguments is entered
GetVersionCalls ==
    /\ version_pc \in {"idle", "done"}
    /\ HostBegins(CommandCall("version", TRUE))
    /\ host_pc' = "cli"
    /\ host_return' = "none"
    /\ version_pc' = "calling"
    /\ version_result' = NotReturned
    /\ UNCHANGED <<frame_vars, write_vars, id_vars, beside_version,
                   init_vars, lifecycle_vars, thread_vars, slot_vars, pipes,
                   call_vars>>

\* version_str = result.get('version', 'unknown') if isinstance(result,
\* dict) else str(result)  (line 21): the version of the dict, or the text
\* of whatever else cel.version() returned
VersionStr(returned) == IF returned = "dict" THEN "version" ELSE returned

\* return Success(version_str) (line 22), or, when cel.version() raised,
\* return Error(code=-32603, ...) (lines 23-25)
GetVersionReturns ==
    /\ version_pc = "calling"
    /\ host_pc = "done"
    /\ version_result' = IF Raised
                         THEN Error(InternalError)
                         ELSE Success(VersionStr(host_return))
    /\ version_pc' = "done"
    /\ UNCHANGED <<frame_vars, write_vars, id_vars, beside_version,
                   init_vars, lifecycle_vars, thread_vars, slot_vars, pipes,
                   call_vars, host_vars>>

NextVersion ==
    \/ GetVersionCalls
    \/ RunCliCommand
    \/ ShowCommandHelp
    \/ GetVersionReturns

SpecVersion == InitLoop /\ [][NextVersion]_vars

\* C38: get_version returns a success result only when the version command
\* succeeded; whenever the command failed, by raising or by returning no
\* result, get_version returns an error with code -32603.
C38_VersionFailureIsError ==
    version_pc = "done" =>
        /\ version_result.kind = "Success" => cli_exit.code = "ok"
        /\ cli_exit.code # "ok" => version_result = Error(InternalError)

(***************************************************************************)
(* SpecLog: configure_logging run again and again with a log directory,    *)
(* while the clock advances and log files of other runs appear in the      *)
(* directory.  A file is named celbridge_host_<stamp>.log, the stamp       *)
(* having the fixed width of %Y%m%d_%H%M%S, so names sort as stamps do.    *)
(***************************************************************************)
Stamps == 1..MaxStamp

\* max_log_files: the argument, or int(PYTHON_LOG_MAX_FILES) (line 25)
MaxLogFiles == (-1)..MaxKeep

\* sorted(names): the names in ascending order
RECURSIVE Sorted(_)
Sorted(names) ==
    IF names = {} THEN <<>>
    ELSE LET first == CHOOSE n \in names : \A m \in names : n <= m
         IN  <<first>> \o Sorted(names \ {first})

\* seq[:k], the slice of Python: the first k items, all of them when k is
\* larger than the length, all but the last -k when k is negative
SliceTo(seq, k) ==
    LET n == IF k >= 0 THEN (IF k < Len(seq) THEN k ELSE Len(seq))
             ELSE (IF Len(seq) + k > 0 THEN Len(seq) + k ELSE 0)
    IN  SubSeq(seq, 1, n)

\* a plausible slip: no room is made for the file about to be created
FilesToDeleteNoRoom(existing_logs, max_log_files) ==
    IF Len(existing_logs) >= max_log_files
    THEN SliceTo(existing_logs, Len(existing_logs) - max_log_files)
    ELSE <<>>

\* if len(existing_logs) >= max_log_files: files_to_delete =
\* existing_logs[:len(existing_logs) - max_log_files + 1]  (lines 48-50)
FilesToDelete(existing_logs, max_log_files) ==
    IF Len(existing_logs) >= max_log_files
    THEN SliceTo(existing_logs, Len(existing_logs) - max_log_files + 1)
    ELSE <<>>

\* configure_logging with a log directory (lines 42-61): the files found
\* are sorted, the first ones are removed when there are max_log_files or
\* more, a removal that fails being passed over (lines 52-55), and the file
\* named after the current second is opened for writing, which creates it
\* or empties the file of that name
ConfigureLogging ==
    \E max_log_files \in MaxLogFiles :
        LET existing_logs == Sorted(log_files)
            files_to_delete == FilesToDelete(existing_logs, max_log_files)
            chosen == {files_to_delete[i] : i \in 1..Len(files_to_delete)}
        IN  \E in_use \in SUBSET chosen :
                /\ log_files' = (log_files \ (chosen \ in_use)) \cup {now}
                /\ log_max' = max_log_files
                /\ log_before' = log_files
                /\ log_chosen' = chosen
                /\ log_failed' = in_use
                /\ log_after' = log_files'
                /\ log_pc' = "done"
                /\ UNCHANGED <<transport_vars, cli_vars, accept_vars,
                               version_vars, now>>

\* a second goes by
ClockTicks ==
    /\ now < MaxStamp
    /\ now' = now + 1
    /\ UNCHANGED <<transport_vars, cli_vars, accept_vars, version_vars,
                   log_files, log_pc, log_max, log_before, log_chosen,
                   log_failed, log_after>>

\* another process configures its logging in the same directory, or a file
\* is put there: a file of some stamp appears
OtherLogAppears ==
    /\ \E stamp \in Stamps : log_files' = log_files \cup {stamp}
    /\ log_files' # log_files
    /\ UNCHANGED <<transport_vars, cli_vars, accept_vars, version_vars,
                   now, log_pc, log_max, log_before, log_chosen, log_failed,
                   log_after>>

NextLog ==
    \/ ConfigureLogging
    \/ ClockTicks
    \/ OtherLogAppears

SpecLog == InitLoop /\ [][NextLog]_vars

\* the larger of two numbers
Larger(a, b) == IF a >= b THEN a ELSE b

\* the files picked are the oldest by name: none that is left is older
OldestChosen ==
    \A d \in log_chosen : \A k \in log_before \ log_chosen : d < k

====
